---- MODULE Spec2Model ----
(***************************************************************************)
(* Research Paper Connector: the retrieval engine (src/src/search_engine.py),*)
(* the vector store gateway (src/src/endee_client.py), the chunker         *)
(* (src/src/document_processor.py), the ingestion pipeline                 *)
(* (src/src/ingestion.py), the embedding provider (src/src/embeddings.py)  *)
(* and the ingest command (src/scripts/ingest_papers.py).                  *)
(*                                                                         *)
(* Similarity scores and thresholds are kept in tenths: 5 stands for 0.5.  *)
(* An optional Python value is a sequence of length at most one: <<>> is   *)
(* None (or an absent dictionary key), <<v>> is the value v.               *)
(***************************************************************************)
EXTENDS Integers, Sequences, FiniteSets, TLC

VARIABLES
    ranked,     \* the hits the store ranks for the query at hand, best first
    fault,      \* the condition of the environment during the scenario
    searchLog,  \* the last two SearchEngine.search calls, oldest first
    store,      \* the ids of the records the store holds
    gateway,    \* the class of the gateway handle the engine was built with
    relatedLog, \* the last find_related_papers call, if any
    aggIn,      \* the matches handed to aggregate_results_by_paper
    aggOut,     \* the mapping it returned, if it was called
    call,       \* the gateway call in progress, or the last one completed
    source,     \* the document and the chunker configuration of the scenario
    chunkLog,   \* the last call of the chunker, if any
    disk,       \* the files of the directory that is ingested
    services,   \* what the pipeline depends on: PyPDF2, the embedding model
    ingestLog,  \* the last call of the ingestion pipeline, if any
    runs,       \* two ingestion runs that share the store
    points,     \* the store's records: the run that wrote each key last
    journal,    \* the last calls of a session on one store, oldest first
    ranking,    \* the order in which the store ranks the papers, per query
    embedding_model, \* the module global _embedding_model of embeddings.py
    threads,    \* the threads calling get_embedding_model
    operands,   \* the two vectors handed to compute_similarity
    cosine      \* what compute_similarity returned, if it was called

envVars == <<ranked, fault>>
searchVars == <<searchLog>>
relatedVars == <<store, gateway, relatedLog>>

aggVars == <<aggIn, aggOut>>

gatewayVars == <<call>>

chunkerVars == <<source, chunkLog>>
ingestVars == <<disk, services, ingestLog>>
runVars == <<runs, points>>
pipelineVars == <<chunkerVars, ingestVars, runVars>>
retrievalVars == <<envVars, searchVars, relatedVars, aggVars, gatewayVars>>
sessionVars == <<journal, ranking>>
embeddingVars == <<embedding_model, threads, operands, cosine>>

vars == <<envVars, searchVars, relatedVars, aggVars, gatewayVars, pipelineVars,
          sessionVars, embeddingVars>>

(***************************************************************************)
(* Bounds of the model                                                     *)
(***************************************************************************)
MaxHits == 2
MaxCandidates == 3
MaxTopK == 2
MaxMatches == 3
MaxDocs == 3
MaxBatchSize == 2

(***************************************************************************)
(* Program constants (src/src/config.py)                                   *)
(***************************************************************************)
TOP_K_RESULTS == 10
SIMILARITY_THRESHOLD == 5

(***************************************************************************)
(* Python values                                                           *)
(***************************************************************************)
None == <<>>
Some(v) == <<v>>

\* No session on the store has begun.
SessionIdle == journal = <<>> /\ ranking = <<>>

\* Nothing has asked for the embedding model or for a similarity.
EmbeddingIdle ==
    /\ embedding_model = None
    /\ threads = <<>>
    /\ operands = <<>>
    /\ cosine = None

\* Nothing of the ingestion side has run: the state of the retrieval
\* scenarios, which never touch it.
PipelineIdle ==
    /\ source = None
    /\ chunkLog = None
    /\ disk = <<>>
    /\ services = <<>>
    /\ ingestLog = None
    /\ runs = <<>>
    /\ points = <<>>

\* Python truthiness of an optional number: None and 0 are falsy.
Truthy(opt) == opt # None /\ opt[1] # 0

\* Python's  a or b  for an optional number a and a number b.
PyOr(opt, default) == IF Truthy(opt) THEN opt[1] ELSE default

\* dict.get(key, default) on an optional entry.
Get(entry, default) == IF entry = None THEN default ELSE entry[1]

Min(a, b) == IF a <= b THEN a ELSE b

\* The outcome of a call: a returned value or a raised exception.
Return(v) == [raised |-> FALSE, value |-> v]
Raise(e) == [raised |-> TRUE, value |-> e]

SeqsUpTo(S, n) == UNION {[1..m -> S] : m \in 0..n}

\* A request as the store sees it.
Request(op, arg) == [op |-> op, arg |-> arg]

(***************************************************************************)
(* The store's answer to POST /api/v1/search                               *)
(***************************************************************************)
\* What the service answers when asked for k hits, under each condition.
\* "up" answers 200 with its k best hits; the other conditions are the
\* transport and response failures the gateway has to absorb.
HttpPostSearch(f, hits, k) ==
    CASE f = "timeout"   -> [delivered |-> FALSE, status |-> 0, json |-> FALSE,
                             hasResults |-> FALSE, itemsOk |-> FALSE, results |-> <<>>]
      [] f = "status500" -> [delivered |-> TRUE, status |-> 500, json |-> TRUE,
                             hasResults |-> FALSE, itemsOk |-> TRUE, results |-> <<>>]
      [] f = "notjson"   -> [delivered |-> TRUE, status |-> 200, json |-> FALSE,
                             hasResults |-> FALSE, itemsOk |-> FALSE, results |-> <<>>]
      [] f = "noresults" -> [delivered |-> TRUE, status |-> 200, json |-> TRUE,
                             hasResults |-> FALSE, itemsOk |-> TRUE, results |-> <<>>]
      [] f = "baditem"   -> [delivered |-> TRUE, status |-> 200, json |-> TRUE,
                             hasResults |-> TRUE, itemsOk |-> FALSE,
                             results |-> SubSeq(hits, 1, Min(k, Len(hits)))]
      [] OTHER           -> [delivered |-> TRUE, status |-> 200, json |-> TRUE,
                             hasResults |-> TRUE, itemsOk |-> TRUE,
                             results |-> SubSeq(hits, 1, Min(k, Len(hits)))]

(***************************************************************************)
(* EndeeClient.search                                                      *)
(***************************************************************************)
\* The body of the try block: it raises on a transport error, on a body
\* that is not JSON and on an item without "id" or "score".
EndeeClient_search_try(resp) ==
    IF ~resp.delivered THEN Raise("TransportError")
    ELSE IF resp.status # 200 THEN Return(<<>>)
    ELSE IF ~resp.json THEN Raise("JSONDecodeError")
    ELSE IF ~resp.hasResults THEN Return(<<>>)
    ELSE IF ~resp.itemsOk /\ resp.results # <<>> THEN Raise("KeyError")
    ELSE Return(resp.results)

\* try ... except Exception: return []
EndeeClient_search(resp) ==
    LET r == EndeeClient_search_try(resp)
    IN  IF r.raised THEN Return(<<>>) ELSE r

(***************************************************************************)
(* EndeeClient: health_check, create_collection, delete_collection         *)
(***************************************************************************)
\* r.status_code == 200, inside the try block.
health_check_try(resp) ==
    IF ~resp.delivered THEN Raise("TransportError")
    ELSE Return(resp.status = 200)

\* health_check with no except clause.
health_check_uncaught(resp) == health_check_try(resp)

health_check(resp) ==
    LET r == health_check_try(resp)
    IN  IF r.raised THEN Return(FALSE) ELSE r

\* create_collection sends nothing and returns True.
create_collection == Return(TRUE)

\* delete_collection counting 404 as a failure.
delete_collection_try_strict(resp) ==
    IF ~resp.delivered THEN Raise("TransportError")
    ELSE Return(resp.status \in {200, 204})

\* r.status_code in (200, 204, 404), inside the try block.
delete_collection_try(resp) ==
    IF ~resp.delivered THEN Raise("TransportError")
    ELSE Return(resp.status \in {200, 204, 404})

delete_collection(resp) ==
    LET r == delete_collection_try(resp)
    IN  IF r.raised THEN Return(FALSE) ELSE r

(***************************************************************************)
(* EndeeClient.insert_vectors                                              *)
(***************************************************************************)
\* A slice that takes one record more than batch_size.
Batch_overlapping(documents, i, batch_size) ==
    SubSeq(documents, i + 1, Min(i + batch_size + 1, Len(documents)))

\* documents[i:i + batch_size], i counted from 0.
Batch(documents, i, batch_size) ==
    SubSeq(documents, i + 1, Min(i + batch_size, Len(documents)))

\* No gateway call made yet.
Idle ==
    [op |-> "none", pc |-> "idle", raised |-> FALSE, ret |-> FALSE, resp |-> None,
     documents |-> <<>>, batch_size |-> 0, i |-> 0, sent |-> <<>>]

\* Nothing of the retrieval side has run: the state of the ingestion
\* scenarios, which never touch it.
RetrievalIdle ==
    /\ ranked = <<>>
    /\ fault = "none"
    /\ searchLog = <<>>
    /\ store = {}
    /\ gateway = "EndeeClient"
    /\ relatedLog = None
    /\ aggIn = <<>>
    /\ aggOut = None
    /\ call = Idle

\* The call record of an operation that has returned or raised, with the
\* response its request met (None when it sent no request).
Done(op, outcome, resp) ==
    [op |-> op, pc |-> "done", raised |-> outcome.raised, ret |-> outcome.value,
     resp |-> resp, documents |-> <<>>, batch_size |-> 0, i |-> 0, sent |-> <<>>]

\* Entering insert_vectors: range(0, len(documents), batch_size) raises
\* ValueError for a step of 0, which the except clause turns into False; an
\* empty range runs no iteration and the call returns True.
insert_vectors_enter(documents, batch_size) ==
    [op |-> "insert_vectors",
     pc |-> IF batch_size = 0 \/ documents = <<>> THEN "done" ELSE "loop",
     raised |-> FALSE,
     ret |-> (batch_size # 0),
     resp |-> None, documents |-> documents, batch_size |-> batch_size,
     i |-> 0, sent |-> <<>>]

\* One iteration that goes on to the next batch whatever the response was.
insert_vectors_step_continue(c, resp) ==
    LET batch == Batch(c.documents, c.i, c.batch_size)
        ok == resp.delivered /\ resp.status \in {200, 201}
        last == c.i + c.batch_size >= Len(c.documents)
    IN  [c EXCEPT !.sent = Append(@, [batch |-> batch, resp |-> resp]),
                  !.i = c.i + c.batch_size,
                  !.pc = IF last THEN "done" ELSE "loop",
                  !.ret = TRUE]

\* One iteration of the loop of insert_vectors: the PUT of the batch at
\* offset i. A status other than 200 and 201 returns False, an exception of
\* the transport is caught and returns False, and otherwise the loop goes
\* on, returning True after the last batch.
insert_vectors_step(c, resp) ==
    LET batch == Batch(c.documents, c.i, c.batch_size)
        ok == resp.delivered /\ resp.status \in {200, 201}
        last == c.i + c.batch_size >= Len(c.documents)
    IN  [c EXCEPT !.sent = Append(@, [batch |-> batch, resp |-> resp]),
                  !.i = IF ok THEN c.i + c.batch_size ELSE c.i,
                  !.pc = IF ok /\ ~last THEN "loop" ELSE "done",
                  !.ret = ok]

\* The ids of a batch of documents.
Ids(batch) == {batch[j] : j \in 1..Len(batch)}

(***************************************************************************)
(* SearchEngine                                                            *)
(***************************************************************************)
\* SearchEngine._convert_to_search_match: metadata that is no dictionary
\* makes metadata.get raise, which is caught and gives None.
convert_to_search_match(result) ==
    IF ~result.metadata.isDict THEN None
    ELSE Some([paper_id         |-> Get(result.metadata.paper_id, "unknown"),
               paper_title      |-> Get(result.metadata.title, "Untitled"),
               chunk_text       |-> Get(result.metadata.chunk_text, ""),
               chunk_index      |-> Get(result.metadata.chunk_index, 0),
               similarity_score |-> result.score,
               metadata         |-> result.metadata])

\* The loop of search with the threshold test left out.
RECURSIVE FilterByThreshold_unfiltered(_, _)
FilterByThreshold_unfiltered(raw, threshold) ==
    IF raw = <<>> THEN <<>>
    ELSE LET match == convert_to_search_match(Head(raw))
             rest == FilterByThreshold_unfiltered(Tail(raw), threshold)
         IN  IF match # None THEN <<match[1]>> \o rest ELSE rest

\* Step 3 of search: the loop over raw_results.
RECURSIVE FilterByThreshold(_, _)
FilterByThreshold(raw, threshold) ==
    IF raw = <<>> THEN <<>>
    ELSE LET result == Head(raw)
             rest == FilterByThreshold(Tail(raw), threshold)
             match == convert_to_search_match(result)
         IN  IF result.score >= threshold /\ match # None
             THEN <<match[1]>> \o rest
             ELSE rest

\* The threshold search filters with: min_similarity or the configured one.
EffectiveThreshold(min_similarity) == PyOr(min_similarity, SIMILARITY_THRESHOLD)

\* SearchEngine.search(query, top_k, None, min_similarity) under environment
\* f with the store ranking hits: the value returned and the requests sent.
SearchEngine_search(f, hits, self_top_k, top_k, min_similarity) ==
    LET k == PyOr(top_k, self_top_k)
        threshold == EffectiveThreshold(min_similarity)
    IN  IF f = "embed"
        THEN [result |-> <<>>, raw |-> <<>>, requests |-> <<>>]
        ELSE LET raw == EndeeClient_search(HttpPostSearch(f, hits, k)).value
             IN  [result |-> FilterByThreshold(raw, threshold), raw |-> raw,
                  requests |-> <<Request("search", k)>>]

\* The record id f"{paper_id}_chunk_{chunk_index}".
VectorId(paper_id, chunk_index) == <<paper_id, "_chunk_", chunk_index>>

\* EndeeClient has no get_vector attribute: the call raises AttributeError
\* before any request is sent.
EndeeClient_get_vector(st, vector_id) == Raise("AttributeError")

\* fetchById(id) -> record or absent, for a gateway that offers it.
FetchById(st, vector_id) ==
    IF vector_id \in st THEN Return(Some([id |-> vector_id])) ELSE Return(None)

\* self.endee_client.get_vector(vector_id) on the handle the engine holds.
get_vector(gw, st, vector_id) ==
    IF gw = "EndeeClient" THEN EndeeClient_get_vector(st, vector_id)
    ELSE FetchById(st, vector_id)

\* The loop of find_related_papers over raw_results, from the state
\* (matches, seen_papers). result.metadata.get raises when the metadata is no
\* dictionary; the loop leaves as soon as len(matches) >= top_k after a hit
\* that was not skipped.
RECURSIVE RelatedLoop(_, _, _, _, _)
RelatedLoop(raw, paper_id, top_k, matches, seen_papers) ==
    IF raw = <<>> THEN Return(matches)
    ELSE LET result == Head(raw)
         IN  IF ~result.metadata.isDict THEN Raise("AttributeError")
             ELSE LET result_paper_id == result.metadata.paper_id
                  IN  IF result_paper_id = Some(paper_id)
                      THEN RelatedLoop(Tail(raw), paper_id, top_k, matches, seen_papers)
                      ELSE IF result_paper_id \in seen_papers
                      THEN RelatedLoop(Tail(raw), paper_id, top_k, matches, seen_papers)
                      ELSE LET match == convert_to_search_match(result)
                               matches2 == IF match # None THEN Append(matches, match[1])
                                           ELSE matches
                               seen2 == IF match # None
                                        THEN seen_papers \cup {result_paper_id}
                                        ELSE seen_papers
                           IN  IF Len(matches2) >= top_k THEN Return(matches2)
                               ELSE RelatedLoop(Tail(raw), paper_id, top_k, matches2, seen2)

\* find_related_papers without the test  if not vector_data.
find_related_papers_unchecked(gw, st, f, hits, paper_id, top_k) ==
    LET vector_id == VectorId(paper_id, 0)
        vector_data == get_vector(gw, st, vector_id)
    IN  IF vector_data.raised
        THEN [result |-> <<>>, raw |-> <<>>, requests |-> <<>>]
        ELSE LET raw == EndeeClient_search(HttpPostSearch(f, hits, top_k * 3)).value
                 looped == RelatedLoop(raw, paper_id, top_k, <<>>, {})
             IN  [result |-> IF looped.raised THEN <<>> ELSE looped.value,
                  raw |-> raw,
                  requests |-> <<Request("get_vector", vector_id),
                                 Request("search", top_k * 3)>>]

\* SearchEngine.find_related_papers(paper_id, top_k) on gateway gw, with the
\* store holding the records st and ranking hits under condition f: the
\* value returned, the candidates received and the requests sent.
find_related_papers(gw, st, f, hits, paper_id, top_k) ==
    LET vector_id == VectorId(paper_id, 0)
        vector_data == get_vector(gw, st, vector_id)
    IN  IF vector_data.raised
        THEN [result |-> <<>>, raw |-> <<>>, requests |-> <<>>]
        ELSE IF vector_data.value = None
        THEN [result |-> <<>>, raw |-> <<>>,
              requests |-> <<Request("get_vector", vector_id)>>]
        ELSE LET raw == EndeeClient_search(HttpPostSearch(f, hits, top_k * 3)).value
                 looped == RelatedLoop(raw, paper_id, top_k, <<>>, {})
             IN  [result |-> IF looped.raised THEN <<>> ELSE looped.value,
                  raw |-> raw,
                  requests |-> <<Request("get_vector", vector_id),
                                 Request("search", top_k * 3)>>]

\* A dict in insertion order: a sequence of entries [key, group].
KeyIndex(aggregated, key) ==
    IF \E g \in 1..Len(aggregated) : aggregated[g].key = key
    THEN CHOOSE g \in 1..Len(aggregated) : aggregated[g].key = key
    ELSE 0

\* The first loop of aggregate_results_by_paper: a new key is added at the
\* end with an empty list, and the match is appended to its key's list.
RECURSIVE GroupByPaper(_, _)
GroupByPaper(matches, aggregated) ==
    IF matches = <<>> THEN aggregated
    ELSE LET match == Head(matches)
             withKey == IF KeyIndex(aggregated, match.paper_id) = 0
                        THEN Append(aggregated, [key |-> match.paper_id, group |-> <<>>])
                        ELSE aggregated
             g == KeyIndex(withKey, match.paper_id)
         IN  GroupByPaper(Tail(matches),
                          [withKey EXCEPT ![g].group = Append(@, match)])

\* Where list.sort(reverse=True) puts m in an already sorted list: after
\* every element whose key is not smaller, so that equal keys keep their
\* order (the sort is stable).
RECURSIVE InsertDescending(_, _)
InsertDescending(sorted, m) ==
    IF sorted = <<>> THEN <<m>>
    ELSE IF Head(sorted).similarity_score >= m.similarity_score
    THEN <<Head(sorted)>> \o InsertDescending(Tail(sorted), m)
    ELSE <<m>> \o sorted

RECURSIVE SortFrom(_, _)
SortFrom(group, sorted) ==
    IF group = <<>> THEN sorted
    ELSE SortFrom(Tail(group), InsertDescending(sorted, Head(group)))

\* A sort that puts m before the elements of equal key: not stable.
RECURSIVE InsertDescending_unstable(_, _)
InsertDescending_unstable(sorted, m) ==
    IF sorted = <<>> THEN <<m>>
    ELSE IF Head(sorted).similarity_score > m.similarity_score
    THEN <<Head(sorted)>> \o InsertDescending_unstable(Tail(sorted), m)
    ELSE <<m>> \o sorted

RECURSIVE SortFrom_unstable(_, _)
SortFrom_unstable(group, sorted) ==
    IF group = <<>> THEN sorted
    ELSE SortFrom_unstable(Tail(group), InsertDescending_unstable(sorted, Head(group)))

sort_by_score_unstable(group) == SortFrom_unstable(group, <<>>)

\* The sort without reverse=True: ascending.
RECURSIVE InsertAscending(_, _)
InsertAscending(sorted, m) ==
    IF sorted = <<>> THEN <<m>>
    ELSE IF Head(sorted).similarity_score <= m.similarity_score
    THEN <<Head(sorted)>> \o InsertAscending(Tail(sorted), m)
    ELSE <<m>> \o sorted

RECURSIVE SortFrom_ascending(_, _)
SortFrom_ascending(group, sorted) ==
    IF group = <<>> THEN sorted
    ELSE SortFrom_ascending(Tail(group), InsertAscending(sorted, Head(group)))

sort_by_score_ascending(group) == SortFrom_ascending(group, <<>>)

\* aggregated[paper_id].sort(key=lambda m: m.similarity_score, reverse=True)
sort_by_score(group) == SortFrom(group, <<>>)

\* SearchEngine.aggregate_results_by_paper(matches)
aggregate_results_by_paper(matches) ==
    LET aggregated == GroupByPaper(matches, <<>>)
    IN  [g \in 1..Len(aggregated) |->
            [key |-> aggregated[g].key, group |-> sort_by_score(aggregated[g].group)]]

(***************************************************************************)
(* Inputs                                                                  *)
(***************************************************************************)
Scores == {-5, 2, 5, 9}

Thresholds == {None, Some(-3), Some(0), Some(1), Some(9)}

TopKs == {None, Some(1)}

PaperIds == {"paper_1", "paper_2", "unknown"}

NotADict == [isDict |-> FALSE, paper_id |-> None, title |-> None,
             chunk_text |-> None, chunk_index |-> None]

Meta(p, i) == [isDict |-> TRUE, paper_id |-> p, title |-> None,
               chunk_text |-> None, chunk_index |-> i]

Faults == {"none", "embed", "timeout", "status500", "notjson", "noresults", "baditem"}

SearchMetas == {NotADict, Meta(Some("paper_1"), Some(0))}

SearchHits == [score : Scores, metadata : SearchMetas]

(***************************************************************************)
(* Semantic search                                                         *)
(***************************************************************************)
Remember(log, entry) ==
    IF Len(log) < 2 THEN Append(log, entry) ELSE <<log[2], entry>>

InitSearch ==
    /\ PipelineIdle
    /\ SessionIdle
    /\ EmbeddingIdle
    /\ ranked \in SeqsUpTo(SearchHits, MaxHits)
    /\ fault \in Faults
    /\ searchLog = <<>>
    /\ store = {}
    /\ gateway = "EndeeClient"
    /\ relatedLog = None
    /\ aggIn = <<>>
    /\ aggOut = None
    /\ call = Idle

Search(top_k, min_similarity) ==
    LET out == SearchEngine_search(fault, ranked, TOP_K_RESULTS, top_k, min_similarity)
    IN  /\ searchLog' = Remember(searchLog,
                                 [top_k |-> top_k, min_similarity |-> min_similarity,
                                  raw |-> out.raw, result |-> out.result,
                                  requests |-> out.requests])
        /\ UNCHANGED <<envVars, relatedVars, aggVars, gatewayVars, pipelineVars,
                 sessionVars, embeddingVars>>

NextSearch == \E top_k \in TopKs, min_similarity \in Thresholds : Search(top_k, min_similarity)

SpecSearch == InitSearch /\ [][NextSearch]_vars

(***************************************************************************)
(* Related-document search                                                 *)
(***************************************************************************)
Gateways == {"EndeeClient", "FetchingGateway"}

RelatedFaults == {"none", "timeout", "status500", "baditem"}

RelatedMetas == {NotADict, Meta(None, Some(0))}
                    \cup {Meta(Some(p), Some(0)) : p \in PaperIds}

RelatedHits == [score : {9}, metadata : RelatedMetas]

StoreIds == {VectorId(p, 0) : p \in PaperIds}

InitRelated ==
    /\ PipelineIdle
    /\ SessionIdle
    /\ EmbeddingIdle
    /\ ranked \in SeqsUpTo(RelatedHits, MaxCandidates)
    /\ fault \in RelatedFaults
    /\ store \in SUBSET StoreIds
    /\ gateway \in Gateways
    /\ relatedLog = None
    /\ searchLog = <<>>
    /\ aggIn = <<>>
    /\ aggOut = None
    /\ call = Idle

FindRelatedPapers(paper_id, top_k) ==
    LET out == find_related_papers(gateway, store, fault, ranked, paper_id, top_k)
    IN  /\ relatedLog' = Some([paper_id |-> paper_id, top_k |-> top_k,
                               raw |-> out.raw, result |-> out.result,
                               requests |-> out.requests])
        /\ UNCHANGED <<envVars, searchVars, store, gateway, aggVars, gatewayVars, pipelineVars,
                 sessionVars, embeddingVars>>

NextRelated == \E paper_id \in PaperIds, top_k \in 0..MaxTopK : FindRelatedPapers(paper_id, top_k)

SpecRelated == InitRelated /\ [][NextRelated]_vars

\* The engine as the repository builds it, SearchEngine() with EndeeClient(),
\* and the store answering every request.
InitRelatedEndee == InitRelated /\ gateway = "EndeeClient" /\ fault = "none"

SpecRelatedEndee == InitRelatedEndee /\ [][NextRelated]_vars

\* The store answering with hits whose metadata is a dictionary.
InitSearchWellFormed ==
    InitSearch /\ \A i \in 1..Len(ranked) : ranked[i].metadata.isDict

SpecSearchWellFormed == InitSearchWellFormed /\ [][NextSearch]_vars

(***************************************************************************)
(* Aggregation                                                             *)
(***************************************************************************)
AggPapers == {"paper_1", "paper_2"}

AggScores == {2, 5, 9}

\* The match of the chunk at position i of the input, of paper p, score s.
AggMatch(p, s, i) ==
    convert_to_search_match([score |-> s, metadata |-> Meta(Some(p), Some(i))])[1]

AggInputs ==
    UNION {{[i \in 1..n |-> AggMatch(f[i][1], f[i][2], i)] :
               f \in [1..n -> AggPapers \X AggScores]} : n \in 0..MaxMatches}

InitAggregate ==
    /\ PipelineIdle
    /\ SessionIdle
    /\ EmbeddingIdle
    /\ aggIn \in AggInputs
    /\ aggOut = None
    /\ ranked = <<>>
    /\ fault = "none"
    /\ searchLog = <<>>
    /\ store = {}
    /\ gateway = "EndeeClient"
    /\ relatedLog = None
    /\ call = Idle

Aggregate ==
    /\ aggOut = None
    /\ aggOut' = Some(aggregate_results_by_paper(aggIn))
    /\ UNCHANGED <<aggIn, envVars, searchVars, relatedVars, gatewayVars, pipelineVars,
                 sessionVars, embeddingVars>>

NextAggregate == Aggregate

SpecAggregate == InitAggregate /\ [][NextAggregate]_vars

(***************************************************************************)
(* The gateway                                                             *)
(***************************************************************************)
Statuses == {200, 201, 204, 404, 500}

\* What a request can meet: an exception of the transport (connection
\* refused, timeout) or a response with a status.
HttpResponses ==
    {[delivered |-> FALSE, status |-> 0]}
        \cup {[delivered |-> TRUE, status |-> st] : st \in Statuses}

SearchFaults == {"none", "timeout", "status500", "notjson", "noresults", "baditem"}

\* The records of one paper, in chunk order.
Documents == {[i \in 1..n |-> VectorId("paper_1", i - 1)] : n \in 0..MaxDocs}

GatewayHits == [score : {9}, metadata : {Meta(Some("paper_1"), Some(0))}]

InitGateway ==
    /\ PipelineIdle
    /\ SessionIdle
    /\ EmbeddingIdle
    /\ call = Idle
    /\ store = {}
    /\ ranked \in SeqsUpTo(GatewayHits, MaxHits)
    /\ fault = "none"
    /\ gateway = "EndeeClient"
    /\ searchLog = <<>>
    /\ relatedLog = None
    /\ aggIn = <<>>
    /\ aggOut = None

\* The client is synchronous: an operation starts when none is running.
Ready == call.pc # "loop"

HealthCheck ==
    /\ Ready
    /\ \E resp \in HttpResponses :
           call' = Done("health_check", health_check(resp), Some(resp))
    /\ UNCHANGED <<envVars, searchVars, relatedVars, aggVars, pipelineVars,
                 sessionVars, embeddingVars>>

CreateCollection ==
    /\ Ready
    /\ call' = Done("create_collection", create_collection, None)
    /\ UNCHANGED <<envVars, searchVars, relatedVars, aggVars, pipelineVars,
                 sessionVars, embeddingVars>>

\* DELETE /api/v1/index/{collection}: 200 and 204 drop the records, 404 is
\* the answer when there is nothing to drop, and a request whose answer is
\* lost may or may not have been carried out.
DeleteCollection ==
    /\ Ready
    /\ \E resp \in HttpResponses :
           /\ resp.status = 404 => store = {}
           /\ call' = Done("delete_collection", delete_collection(resp), Some(resp))
           /\ \/ resp.status \in {200, 204} /\ store' = {}
              \/ resp.status \in {201, 404, 500} /\ store' = store
              \/ ~resp.delivered /\ store' \in {store, {}}
    /\ UNCHANGED <<envVars, searchVars, gateway, relatedLog, aggVars, pipelineVars,
                 sessionVars, embeddingVars>>

InsertVectors(documents, batch_size) ==
    /\ Ready
    /\ call' = insert_vectors_enter(documents, batch_size)
    /\ UNCHANGED <<envVars, searchVars, relatedVars, aggVars, pipelineVars,
                 sessionVars, embeddingVars>>

\* PUT /api/v1/points with the next batch: the store upserts the records
\* when it answers 200 or 201, and may have done so when no answer arrives.
PutBatch ==
    /\ call.pc = "loop"
    /\ \E resp \in HttpResponses :
           /\ call' = insert_vectors_step(call, resp)
           /\ LET written == store \cup Ids(Batch(call.documents, call.i, call.batch_size))
              IN  \/ resp.status \in {200, 201} /\ store' = written
                  \/ resp.status \in {204, 404, 500} /\ store' = store
                  \/ ~resp.delivered /\ store' \in {store, written}
    /\ UNCHANGED <<envVars, searchVars, gateway, relatedLog, aggVars, pipelineVars,
                 sessionVars, embeddingVars>>

GatewaySearch(top_k) ==
    /\ Ready
    /\ \E f \in SearchFaults :
           call' = Done("search", EndeeClient_search(HttpPostSearch(f, ranked, top_k)),
                        Some(HttpPostSearch(f, ranked, top_k)))
    /\ UNCHANGED <<envVars, searchVars, relatedVars, aggVars, pipelineVars,
                 sessionVars, embeddingVars>>

NextGateway ==
    \/ HealthCheck
    \/ CreateCollection
    \/ DeleteCollection
    \/ \E documents \in Documents, batch_size \in 0..MaxBatchSize :
           InsertVectors(documents, batch_size)
    \/ PutBatch
    \/ \E top_k \in 1..MaxHits : GatewaySearch(top_k)

SpecGateway == InitGateway /\ [][NextGateway]_vars

(***************************************************************************)
(* Semantic search: properties                                             *)
(***************************************************************************)
SearchCalls == {searchLog[i] : i \in 1..Len(searchLog)}

\* C1: every match returned by search(query, top_k, min_similarity = T) has
\* similarity_score >= T, for every T given (0 and negative T included) and
\* every hit sequence of the store; hits below T alone give an empty result.
C1_ThresholdLaw ==
    \A c \in SearchCalls :
        c.min_similarity # None =>
            /\ \A i \in 1..Len(c.result) :
                   c.result[i].similarity_score >= c.min_similarity[1]
            /\ (\A i \in 1..Len(c.raw) : c.raw[i].score < c.min_similarity[1])
                   => c.result = <<>>

\* A search with threshold 0 that returned a match, and one with threshold
\* 0.9 to which the store returned a single hit of score 0.5.
C1_Witness ==
    /\ Len(searchLog) = 2
    /\ searchLog[1].min_similarity = Some(0) /\ searchLog[1].result # <<>>
    /\ searchLog[2].min_similarity = Some(9) /\ searchLog[2].result = <<>>
    /\ Len(searchLog[2].raw) = 1 /\ searchLog[2].raw[1].score = 5

MatchSet(result) == {result[i] : i \in 1..Len(result)}

\* C2: for the same query, top_k and store response, and thresholds
\* T1 <= T2, every match returned for T2 is returned for T1.
C2_ThresholdMonotone ==
    \A c1 \in SearchCalls, c2 \in SearchCalls :
        (/\ c1.top_k = c2.top_k
         /\ c1.min_similarity # None /\ c2.min_similarity # None
         /\ c1.min_similarity[1] <= c2.min_similarity[1])
        => MatchSet(c2.result) \subseteq MatchSet(c1.result)

\* The hits of raw with score >= T, in order.
RECURSIVE KeepAtLeast(_, _)
KeepAtLeast(raw, T) ==
    IF raw = <<>> THEN <<>>
    ELSE IF Head(raw).score >= T THEN <<Head(raw)>> \o KeepAtLeast(Tail(raw), T)
    ELSE KeepAtLeast(Tail(raw), T)

\* C3: the sequence search returns for min_similarity = T is the hit
\* sequence the store returned with the hits of score < T removed: same
\* length, same order, each match carrying its hit's score and metadata.
C3_ExactFilter ==
    \A c \in SearchCalls :
        c.min_similarity # None =>
            LET kept == KeepAtLeast(c.raw, c.min_similarity[1])
            IN  /\ Len(c.result) = Len(kept)
                /\ \A i \in 1..Len(kept) :
                       i <= Len(c.result) =>
                           /\ c.result[i].similarity_score = kept[i].score
                           /\ c.result[i].metadata = kept[i].metadata

(***************************************************************************)
(* Related-document search: properties                                     *)
(***************************************************************************)
\* The candidates the store returns to a search for k hits.
Candidates(k) == EndeeClient_search(HttpPostSearch(fault, ranked, k)).value

\* The first hit of each distinct paper other than seed, in order, at most
\* top_k of them.
RECURSIVE FirstOfEachPaper(_, _, _, _)
FirstOfEachPaper(cands, seed, top_k, out) ==
    IF cands = <<>> \/ Len(out) >= top_k THEN out
    ELSE LET m == convert_to_search_match(Head(cands))
         IN  IF \/ m = None
                \/ m[1].paper_id = seed
                \/ \E i \in 1..Len(out) : out[i].paper_id = m[1].paper_id
             THEN FirstOfEachPaper(Tail(cands), seed, top_k, out)
             ELSE FirstOfEachPaper(Tail(cands), seed, top_k, Append(out, m[1]))

\* C4: with the record {paper_id}_chunk_0 in the store, find_related_papers
\* fetches it by id, searches for 3 * top_k candidates and returns the first
\* hit of each distinct paper other than the seed, in store order, stopping
\* at top_k matches; the result is not empty when a candidate is of another
\* paper.
C4_RelatedFetchesSearchesSelects ==
    \A c \in {relatedLog[i] : i \in 1..Len(relatedLog)} :
        VectorId(c.paper_id, 0) \in store =>
            /\ c.requests = <<Request("get_vector", VectorId(c.paper_id, 0)),
                              Request("search", 3 * c.top_k)>>
            /\ c.result = FirstOfEachPaper(Candidates(3 * c.top_k), c.paper_id,
                                           c.top_k, <<>>)

\* C5: no match returned by find_related_papers(P, top_k) has paper_id P, no
\* paper_id occurs in two returned matches, and at most top_k are returned.
C5_RelatedLaw ==
    \A c \in {relatedLog[i] : i \in 1..Len(relatedLog)} :
        /\ \A i \in 1..Len(c.result) : c.result[i].paper_id # c.paper_id
        /\ \A i \in 1..Len(c.result), j \in 1..Len(c.result) :
               i # j => c.result[i].paper_id # c.result[j].paper_id
        /\ Len(c.result) <= c.top_k

\* C6: with the record {paper_id}_chunk_0 absent from the store,
\* find_related_papers returns the empty sequence and sends no search.
C6_AbsentSeedNoSearch ==
    \A c \in {relatedLog[i] : i \in 1..Len(relatedLog)} :
        VectorId(c.paper_id, 0) \notin store =>
            /\ c.result = <<>>
            /\ \A i \in 1..Len(c.requests) : c.requests[i].op # "search"

\* The seed is looked up on a gateway that fetches by id and is absent,
\* while the store would have ranked a hit of another paper.
C6_Witness ==
    /\ relatedLog # None
    /\ gateway = "FetchingGateway"
    /\ fault = "none"
    /\ relatedLog[1].paper_id = "paper_1"
    /\ relatedLog[1].top_k >= 1
    /\ VectorId("paper_1", 0) \notin store
    /\ relatedLog[1].requests = <<Request("get_vector", VectorId("paper_1", 0))>>
    /\ \E i \in 1..Len(ranked) : ranked[i].metadata.paper_id = Some("paper_2")
    /\ relatedLog[1].result = <<>>

(***************************************************************************)
(* Aggregation: properties                                                 *)
(***************************************************************************)
\* The places (g, j) of the returned mapping: entry g, position j.
Places(out) == {<<g, j>> \in (1..Len(out)) \X (1..Len(aggIn)) : j <= Len(out[g].group)}

\* The first position of paper p in the input.
FirstAt(p) == CHOOSE i \in 1..Len(aggIn) :
                  /\ aggIn[i].paper_id = p
                  /\ \A j \in 1..(i - 1) : aggIn[j].paper_id # p

\* C7: aggregate_results_by_paper partitions its input: every input match is
\* at exactly one place, in the group of its own paper_id; the keys are in
\* the order in which the input first shows them; within a group, matches
\* of equal score keep their input order.
C7_AggregatePartition ==
    aggOut # None =>
        LET out == aggOut[1]
        IN  /\ \A i \in 1..Len(aggIn) :
                   Cardinality({pl \in Places(out) :
                                   out[pl[1]].group[pl[2]] = aggIn[i]}) = 1
            /\ Cardinality(Places(out)) = Len(aggIn)
            /\ \A pl \in Places(out) :
                   out[pl[1]].group[pl[2]].paper_id = out[pl[1]].key
            /\ \A g \in 1..Len(out), h \in 1..Len(out) :
                   g < h => /\ out[g].key # out[h].key
                            /\ FirstAt(out[g].key) < FirstAt(out[h].key)
            /\ \A g \in 1..Len(out) :
                   \A j \in 1..Len(out[g].group), k \in 1..Len(out[g].group) :
                       (j < k /\ out[g].group[j].similarity_score
                                   = out[g].group[k].similarity_score)
                       => out[g].group[j].chunk_index < out[g].group[k].chunk_index

\* Two papers, the later one first in the input, and a group of three
\* matches of which two have the same score.
C7_Witness ==
    /\ aggOut # None
    /\ Len(aggOut[1]) = 2
    /\ aggOut[1][1].key = "paper_2"
    /\ \E g \in 1..2 :
           /\ Len(aggOut[1][g].group) = 2
           /\ aggOut[1][g].group[1].similarity_score
                 = aggOut[1][g].group[2].similarity_score

\* C8: in every group returned by aggregate_results_by_paper the scores are
\* non-increasing from the first element to the last.
C8_GroupsNonIncreasing ==
    aggOut # None =>
        \A g \in 1..Len(aggOut[1]) :
            \A j \in 1..(Len(aggOut[1][g].group) - 1) :
                aggOut[1][g].group[j].similarity_score
                    >= aggOut[1][g].group[j + 1].similarity_score

\* A paper whose matches came in increasing score and were reordered.
C8_Witness ==
    /\ aggOut # None
    /\ Len(aggIn) = 3
    /\ \A i \in 1..3 : aggIn[i].paper_id = "paper_1"
    /\ aggIn[1].similarity_score < aggIn[2].similarity_score
    /\ aggIn[2].similarity_score < aggIn[3].similarity_score
    /\ aggOut[1][1].group = <<aggIn[3], aggIn[2], aggIn[1]>>

(***************************************************************************)
(* The gateway: properties                                                 *)
(***************************************************************************)
\* The statuses section 6 of the specification counts as success.
AcceptedStatuses(op) ==
    CASE op = "health_check"      -> {200}
      [] op = "delete_collection" -> {200, 204, 404}
      [] op = "insert_vectors"    -> {200, 201}
      [] OTHER                    -> {200}

\* A request that met an exception of the transport or a status that is no
\* success for the operation.
RequestFailed(op, resp) == ~resp.delivered \/ resp.status \notin AcceptedStatuses(op)

\* A search response whose body is not {"results": [{"id", "score", ...}]}.
BodyMalformed(resp) ==
    resp.delivered /\ resp.status = 200
        /\ (~resp.json \/ ~resp.hasResults \/ (~resp.itemsOk /\ resp.results # <<>>))

\* The call in the state met a failure of its request.
CallFailed ==
    CASE call.op = "insert_vectors" ->
             \E j \in 1..Len(call.sent) : RequestFailed(call.op, call.sent[j].resp)
      [] call.op = "search" ->
             RequestFailed(call.op, call.resp[1]) \/ BodyMalformed(call.resp[1])
      [] call.op \in {"health_check", "delete_collection"} ->
             RequestFailed(call.op, call.resp[1])
      [] OTHER -> FALSE

\* C9: no gateway operation raises to its caller; on a transport exception,
\* a status that is no success or a malformed search body, the boolean
\* operations return False and search returns the empty list.
C9_GatewayNeverRaises ==
    /\ ~call.raised
    /\ (call.pc = "done" /\ CallFailed) =>
           IF call.op = "search" THEN call.ret = <<>> ELSE call.ret = FALSE

\* A search whose request met a transport exception, while the store had a
\* hit to return.
C9_Witness ==
    /\ call.op = "search"
    /\ call.pc = "done"
    /\ ~call.resp[1].delivered
    /\ ranked # <<>>
    /\ call.ret = <<>>

\* The batches before the j-th of the call in the state.
EarlierBatches(j) == UNION {Ids(call.sent[k].batch) : k \in 1..(j - 1)}

\* C10: when insert_vectors has split the records into several batches and
\* the request for batch j fails, the call returns False, batch j is the
\* last request sent and was sent once, and the records of the batches
\* before j are in the store.
C10_BatchFailureAborts ==
    (call.op = "insert_vectors" /\ Len(call.documents) > call.batch_size) =>
        \A j \in 1..Len(call.sent) :
            RequestFailed(call.op, call.sent[j].resp) =>
                /\ call.pc = "done"
                /\ call.ret = FALSE
                /\ j = Len(call.sent)
                /\ call.sent[j].batch = Batch(call.documents, (j - 1) * call.batch_size,
                                              call.batch_size)
                /\ \A k \in 1..(j - 1) : call.sent[k].batch # call.sent[j].batch
                /\ EarlierBatches(j) \subseteq store

\* Three records in batches of one: the first batch written, the second
\* refused by the store.
C10_Witness ==
    /\ call.op = "insert_vectors"
    /\ call.pc = "done"
    /\ Len(call.documents) = 3
    /\ call.batch_size = 1
    /\ Len(call.sent) = 2
    /\ call.sent[2].resp.status = 500
    /\ call.ret = FALSE
    /\ store = {VectorId("paper_1", 0)}

(***************************************************************************)
(* Text                                                                    *)
(*                                                                         *)
(* A text is a sequence of runs [c, n]: the character c repeated n >= 1    *)
(* times, two adjacent runs differing in c. Lengths are lengths in         *)
(* characters, so the sizes of the source keep their values.               *)
(***************************************************************************)
Run(c, n) == <<[c |-> c, n |-> n]>>

\* c repeated n >= 0 times.
Times(c, n) == IF n = 0 THEN <<>> ELSE Run(c, n)

Whitespace == {" ", "\n"}

Digits == {"7"}

\* len(text)
RECURSIVE StrLen(_)
StrLen(text) == IF text = <<>> THEN 0 ELSE text[1].n + StrLen(Tail(text))

\* a + b
Cat(a, b) ==
    IF a = <<>> THEN b
    ELSE IF b = <<>> THEN a
    ELSE IF a[Len(a)].c = b[1].c
         THEN SubSeq(a, 1, Len(a) - 1)
                  \o Run(b[1].c, a[Len(a)].n + b[1].n) \o Tail(b)
         ELSE a \o b

RECURSIVE lstrip(_)
lstrip(text) ==
    IF text # <<>> /\ text[1].c \in Whitespace THEN lstrip(Tail(text)) ELSE text

RECURSIVE rstrip(_)
rstrip(text) ==
    IF text # <<>> /\ text[Len(text)].c \in Whitespace
    THEN rstrip(SubSeq(text, 1, Len(text) - 1))
    ELSE text

\* str.strip()
strip(text) == lstrip(rstrip(text))

\* re.sub(r'\s+', ' ', text): every maximal stretch of whitespace becomes
\* one space.
RECURSIVE collapse_whitespace(_)
collapse_whitespace(text) ==
    IF text = <<>> THEN <<>>
    ELSE IF text[1].c \in Whitespace
         THEN Cat(Run(" ", 1), collapse_whitespace(lstrip(text)))
         ELSE Cat(<<text[1]>>, collapse_whitespace(Tail(text)))

\* The number of runs of digits at the head of a text.
RECURSIVE DigitRuns(_)
DigitRuns(text) ==
    IF text # <<>> /\ text[1].c \in Digits THEN 1 + DigitRuns(Tail(text)) ELSE 0

\* re.sub(r'\n\d+\n', '\n', text), scanning from the left without overlap:
\* consumed counts the characters of the first run that the match before
\* has taken.
RECURSIVE remove_page_numbers(_, _)
remove_page_numbers(text, consumed) ==
    IF text = <<>> THEN <<>>
    ELSE LET rest == Tail(text)
             left == text[1].n - consumed
             after == SubSeq(rest, DigitRuns(rest) + 1, Len(rest))
             match == /\ text[1].c = "\n"
                      /\ left >= 1
                      /\ DigitRuns(rest) >= 1
                      /\ after # <<>>
                      /\ after[1].c = "\n"
         IN  IF match
             THEN Cat(Times("\n", left - 1),
                      Cat(Run("\n", 1), remove_page_numbers(after, 1)))
             ELSE Cat(Times(text[1].c, left), remove_page_numbers(rest, 0))

\* The number of runs of whitespace at the head of a text.
RECURSIVE WhitespaceRuns(_)
WhitespaceRuns(text) ==
    IF text # <<>> /\ text[1].c \in Whitespace
    THEN 1 + WhitespaceRuns(Tail(text))
    ELSE 0

\* The run that ends the longest match of \n\s*\n starting in run a: the
\* last run of newlines of the stretch of whitespace that holds run a.
SeparatorEnd(text, a) ==
    LET e == a + WhitespaceRuns(SubSeq(text, a + 1, Len(text)))
    IN  CHOOSE b \in a..e :
            text[b].c = "\n" /\ \A k \in (b + 1)..e : text[k].c # "\n"

\* \n\s*\n matches from run a on: two newlines with only whitespace between.
IsSeparatorStart(text, a) ==
    text[a].c = "\n" /\ (text[a].n >= 2 \/ SeparatorEnd(text, a) > a)

\* re.split(r'\n\s*\n', text)
RECURSIVE re_split(_)
re_split(text) ==
    LET starts == {a \in 1..Len(text) : IsSeparatorStart(text, a)}
    IN  IF starts = {} THEN <<text>>
        ELSE LET a == CHOOSE x \in starts : \A y \in starts : x <= y
             IN  <<SubSeq(text, 1, a - 1)>>
                     \o re_split(SubSeq(text, SeparatorEnd(text, a) + 1, Len(text)))

\* The texts of a sequence joined by blank lines.
RECURSIVE JoinByBlankLine(_)
JoinByBlankLine(texts) ==
    IF texts = <<>> THEN <<>>
    ELSE IF Len(texts) = 1 THEN texts[1]
    ELSE Cat(texts[1], Cat(Run("\n", 2), JoinByBlankLine(Tail(texts))))

(***************************************************************************)
(* DocumentProcessor                                                       *)
(***************************************************************************)
CHUNK_SIZE == 500

\* A paragraph is kept when it is longer than this.
MinParagraphLength == 50

\* DocumentProcessor.__init__: chunk_size or settings.CHUNK_SIZE
DocumentProcessor_chunk_size(chunk_size) == PyOr(chunk_size, CHUNK_SIZE)

\* Path.suffix.lower()
Lower(suffix) ==
    CASE suffix = ".TXT" -> ".txt"
      [] suffix = ".PDF" -> ".pdf"
      [] OTHER -> suffix

\* The text of the pages whose extract_text() is not empty, each followed
\* by a blank line.
RECURSIVE PagesText(_)
PagesText(pages) ==
    IF pages = <<>> THEN <<>>
    ELSE IF pages[1] # <<>>
         THEN Cat(pages[1], Cat(Run("\n", 2), PagesText(Tail(pages))))
         ELSE PagesText(Tail(pages))

\* extract_text_from_pdf: without PyPDF2 the ImportError is raised before
\* the try block; a failure of the reader is caught and gives "".
extract_text_from_pdf(file, pdfReader) ==
    IF ~pdfReader THEN Raise("ImportError")
    ELSE IF ~file.readable THEN Return(<<>>)
    ELSE Return(PagesText(file.pages))

\* extract_text_from_txt: a failure of open() or of the decoding is caught
\* and gives "".
extract_text_from_txt(file) ==
    IF ~file.readable THEN Return(<<>>) ELSE Return(file.text)

extract_text(file, pdfReader) ==
    IF ~file.exists THEN Return(<<>>)
    ELSE IF Lower(file.name.suffix) = ".pdf" THEN extract_text_from_pdf(file, pdfReader)
    ELSE extract_text_from_txt(file)

\* clean_text leaving the whitespace and the lines of the text as they are.
clean_text_keeping_lines(text) == strip(text)

clean_text(text) == strip(remove_page_numbers(collapse_whitespace(text), 0))

\* The stripped pieces that are longer than MinParagraphLength, in order.
RECURSIVE Retained(_)
Retained(pieces) ==
    IF pieces = <<>> THEN <<>>
    ELSE IF StrLen(strip(pieces[1])) > MinParagraphLength
         THEN <<strip(pieces[1])>> \o Retained(Tail(pieces))
         ELSE Retained(Tail(pieces))

split_into_paragraphs(text) == Retained(re_split(text))

\* chunks with current_chunk closed, when there is one.
Close(chunks, current_chunk) ==
    IF current_chunk # <<>> THEN Append(chunks, strip(current_chunk)) ELSE chunks

\* The loop that appends every paragraph to the chunk in progress.
RECURSIVE Pack_unbounded(_, _, _, _)
Pack_unbounded(paragraphs, chunks, current_chunk, chunk_size) ==
    IF paragraphs = <<>> THEN Close(chunks, current_chunk)
    ELSE Pack_unbounded(Tail(paragraphs), chunks,
                        Cat(current_chunk, Cat(paragraphs[1], Run("\n", 2))), chunk_size)

\* The loop that appends a paragraph when the chunk reaches chunk_size with it.
RECURSIVE Pack_inclusive(_, _, _, _)
Pack_inclusive(paragraphs, chunks, current_chunk, chunk_size) ==
    IF paragraphs = <<>> THEN Close(chunks, current_chunk)
    ELSE LET para == paragraphs[1]
         IN  IF StrLen(current_chunk) + StrLen(para) <= chunk_size
             THEN Pack_inclusive(Tail(paragraphs), chunks,
                                 Cat(current_chunk, Cat(para, Run("\n", 2))), chunk_size)
             ELSE Pack_inclusive(Tail(paragraphs), Close(chunks, current_chunk),
                                 Cat(para, Run("\n", 2)), chunk_size)

\* The loop of split_into_chunks over the paragraphs left, and the closing
\* of the last chunk after it.
RECURSIVE Pack(_, _, _, _)
Pack(paragraphs, chunks, current_chunk, chunk_size) ==
    IF paragraphs = <<>> THEN Close(chunks, current_chunk)
    ELSE LET para == paragraphs[1]
         IN  IF StrLen(current_chunk) + StrLen(para) < chunk_size
             THEN Pack(Tail(paragraphs), chunks,
                       Cat(current_chunk, Cat(para, Run("\n", 2))), chunk_size)
             ELSE Pack(Tail(paragraphs), Close(chunks, current_chunk),
                       Cat(para, Run("\n", 2)), chunk_size)

\* split_into_chunks(text, use_paragraphs=True)
split_into_chunks(text, chunk_size) ==
    Pack(split_into_paragraphs(text), <<>>, <<>>, chunk_size)

\* {**a, **b}
Merge(a, b) ==
    [k \in DOMAIN a \cup DOMAIN b |-> IF k \in DOMAIN b THEN b[k] ELSE a[k]]

\* The entries process_document writes into the metadata of a chunk.
ChunkFields(paper_id, idx, total, chunk_text) ==
    [paper_id |-> paper_id, chunk_index |-> idx, total_chunks |-> total,
     chunk_text |-> chunk_text]

\* The DocumentChunk objects with the caller's entries written last.
DocumentChunks_caller_wins(chunks, paper_id, metadata) ==
    [j \in 1..Len(chunks) |->
        [text |-> chunks[j], chunk_index |-> j - 1,
         metadata |-> Merge(ChunkFields(paper_id, j - 1, Len(chunks), chunks[j]), metadata)]]

\* The DocumentChunk objects built from the chunks; metadata or {} is the
\* metadata itself, None and {} being the same empty mapping here.
DocumentChunks(chunks, paper_id, metadata) ==
    [j \in 1..Len(chunks) |->
        [text |-> chunks[j], chunk_index |-> j - 1,
         metadata |-> Merge(metadata, ChunkFields(paper_id, j - 1, Len(chunks), chunks[j]))]]

process_document(file, pdfReader, chunk_size, paper_id, metadata) ==
    LET raw_text == extract_text(file, pdfReader)
    IN  IF raw_text.raised THEN raw_text
        ELSE IF raw_text.value = <<>> THEN Return(<<>>)
        ELSE Return(DocumentChunks(split_into_chunks(clean_text(raw_text.value), chunk_size),
                                   paper_id, metadata))

(***************************************************************************)
(* The chunker: inputs and scenario                                        *)
(***************************************************************************)
MaxParagraphs == 3

\* What a paragraph of the input looks like: too short to be kept, one
\* line, two lines, longer than every configured chunk size but the default.
Shapes == {"short", "line", "wrapped", "long"}

Letters == <<"A", "B", "C", "D">>

ParagraphText(shape, letter) ==
    CASE shape = "short" -> Run(letter, 40)
      [] shape = "line" -> Run(letter, 60)
      [] shape = "wrapped" -> Run(letter, 30) \o Run("\n", 1) \o Run(letter, 29)
      [] shape = "long" -> Run(letter, 200)

\* Blank lines between two paragraphs: "\n\n" and " \n \n ".
Separators ==
    {Run("\n", 2),
     Run(" ", 1) \o Run("\n", 1) \o Run(" ", 1) \o Run("\n", 1) \o Run(" ", 1)}

\* The paragraphs of a document and the blank lines between them.
Layouts ==
    UNION {[shapes : [1..m -> Shapes], seps : [1..(m - 1) -> Separators]] :
               m \in 0..MaxParagraphs}

\* The paragraphs of a layout as they were written.
WrittenParagraphs(layout) ==
    [j \in 1..Len(layout.shapes) |-> ParagraphText(layout.shapes[j], Letters[j])]

\* The text of a layout from paragraph j on.
RECURSIVE TextFrom(_, _)
TextFrom(layout, j) ==
    IF j > Len(layout.shapes) THEN <<>>
    ELSE IF j = Len(layout.shapes) THEN WrittenParagraphs(layout)[j]
    ELSE Cat(WrittenParagraphs(layout)[j], Cat(layout.seps[j], TextFrom(layout, j + 1)))

TextOf(layout) == TextFrom(layout, 1)

NoLayout == [shapes |-> <<>>, seps |-> <<>>]

FileName(stem, suffix) == [stem |-> stem, suffix |-> suffix]

\* A text file that can be read, holding the text of a layout.
TextFile(name, layout) ==
    [exists |-> TRUE, name |-> name, readable |-> TRUE, layout |-> layout,
     text |-> TextOf(layout), pages |-> <<>>]

OneLine == [shapes |-> <<"line">>, seps |-> <<>>]

\* A PDF file whose pages extract to the given texts.
PdfFile(name, readable, pages) ==
    [exists |-> TRUE, name |-> name, readable |-> readable, layout |-> NoLayout,
     text |-> <<>>, pages |-> pages]

PdfPages ==
    {<<>>, <<Run("A", 60)>>, <<<<>>, Run("A", 60)>>, <<Run("A", 60), Run("B", 60)>>}

\* The files that give no text, or whose text is not read as plain text:
\* a missing file, a file that cannot be opened or decoded, other suffixes,
\* and PDF files.
SpecialFiles ==
    {[TextFile(FileName("a", ".txt"), OneLine) EXCEPT !.exists = FALSE],
     [TextFile(FileName("a", ".txt"), OneLine) EXCEPT !.readable = FALSE],
     TextFile(FileName("a", ".md"), OneLine),
     TextFile(FileName("a", ".dat"), OneLine),
     TextFile(FileName("a", ".TXT"), OneLine)}
        \cup {PdfFile(FileName("a", suffix), readable, pages) :
                  suffix \in {".pdf", ".PDF"}, readable \in BOOLEAN, pages \in PdfPages}

ChunkerFiles ==
    {TextFile(FileName("a", ".txt"), layout) : layout \in Layouts} \cup SpecialFiles

ChunkSizes == {None, Some(122), Some(150)}

\* A paper id is a string of characters.
P1 == <<"p", "1">>

PX == <<"x">>

Title == <<"T">>

\* The metadata a caller passes: none, a title, and entries under the keys
\* that process_document writes itself.
CallerMetadata ==
    {None, [title |-> Title], [paper_id |-> PX, chunk_index |-> 9, total_chunks |-> 9]}

\* PyPDF2 may be missing from the installation; that matters for PDF files.
InitChunker ==
    /\ source \in [file : ChunkerFiles, pdfReader : BOOLEAN, chunk_size : ChunkSizes]
    /\ source.pdfReader \/ Lower(source.file.name.suffix) = ".pdf"
    /\ chunkLog = None
    /\ disk = <<>>
    /\ services = <<>>
    /\ ingestLog = None
    /\ runs = <<>>
    /\ points = <<>>
    /\ RetrievalIdle
    /\ SessionIdle
    /\ EmbeddingIdle

\* split_into_chunks on the text of the document as it was written.
SplitIntoChunks ==
    /\ chunkLog' =
           [op |-> "split_into_chunks", paper_id |-> <<>>, metadata |-> None,
            outcome |-> Return(split_into_chunks(source.file.text,
                                   DocumentProcessor_chunk_size(source.chunk_size)))]
    /\ UNCHANGED <<source, ingestVars, runVars, retrievalVars,
                 sessionVars, embeddingVars>>

ProcessDocument(paper_id, metadata) ==
    /\ chunkLog' =
           [op |-> "process_document", paper_id |-> paper_id, metadata |-> metadata,
            outcome |-> process_document(source.file, source.pdfReader,
                            DocumentProcessor_chunk_size(source.chunk_size),
                            paper_id, metadata)]
    /\ UNCHANGED <<source, ingestVars, runVars, retrievalVars,
                 sessionVars, embeddingVars>>

NextChunker ==
    \/ SplitIntoChunks
    \/ \E metadata \in CallerMetadata : ProcessDocument(P1, metadata)

SpecChunker == InitChunker /\ [][NextChunker]_vars

(***************************************************************************)
(* IngestionPipeline.ingest_single_paper                                   *)
(***************************************************************************)
\* The default batch_size of EndeeClient.insert_vectors.
INSERT_BATCH_SIZE == 100

\* insert_vectors from a call record on, against the responses that its
\* requests meet, in order.
RECURSIVE insert_vectors_run(_, _)
insert_vectors_run(c, resps) ==
    IF c.pc # "loop" \/ resps = <<>> THEN c
    ELSE insert_vectors_run(insert_vectors_step(c, resps[1]), Tail(resps))

insert_vectors(documents, batch_size, resps) ==
    insert_vectors_run(insert_vectors_enter(documents, batch_size), resps)

\* EmbeddingModel.embed_batch: one vector for each text, in order; the
\* vector of a text is the text it encodes.
embed_batch(texts, embedder) ==
    IF texts = <<>> THEN Return(<<>>)
    ELSE IF embedder = "raises" THEN Raise("RuntimeError")
    ELSE Return([j \in 1..Len(texts) |-> [encoded |-> texts[j]]])

DigitChars == <<"0", "1", "2", "3", "4", "5", "6", "7", "8", "9">>

\* str(i) for an integer i >= 0
RECURSIVE str(_)
str(i) ==
    IF i < 10 THEN <<DigitChars[i + 1]>>
    ELSE Append(str(i \div 10), DigitChars[(i % 10) + 1])

\* The id without the separator between its two parts.
vector_id_unseparated(paper_id, chunk_index) == paper_id \o str(chunk_index)

\* f"{paper_id}_chunk_{chunk_index}", character by character
vector_id(paper_id, chunk_index) ==
    paper_id \o <<"_", "c", "h", "u", "n", "k", "_">> \o str(chunk_index)

VectorDocument(id, vector, metadata) ==
    [id |-> id, vector |-> vector, metadata |-> metadata]

\* The records with ids counted from 1.
Vectors_one_based(paper_id, chunks, embeddings) ==
    [j \in 1..Min(Len(chunks), Len(embeddings)) |->
        VectorDocument(vector_id(paper_id, j), embeddings[j], chunks[j].metadata)]

\* [VectorDocument(...) for chunk, embedding in zip(chunks, embeddings)]
Vectors(paper_id, chunks, embeddings) ==
    [j \in 1..Min(Len(chunks), Len(embeddings)) |->
        VectorDocument(vector_id(paper_id, chunks[j].chunk_index),
                       embeddings[j], chunks[j].metadata)]

\* What a call of ingest_single_paper did: its outcome, the paper id it
\* worked with, what process_document gave, the calls of embed_batch and
\* what the last one returned, the calls of insert_vectors and the requests
\* that reached the transport.
Effects(outcome, paper_id, chunks, embed_calls, embeddings, insert_calls, requests) ==
    [outcome |-> outcome, paper_id |-> paper_id, chunks |-> chunks,
     embed_calls |-> embed_calls, embeddings |-> embeddings,
     insert_calls |-> insert_calls, requests |-> requests]

\* The texts of a sequence of chunks.
Texts(chunks) == [j \in 1..Len(chunks) |-> chunks[j].text]

\* The metadata handed to process_document.
WithFile(metadata, file_path) ==
    Merge(metadata, [file_path |-> file_path, file_name |-> file_path.name])

\* The body of ingest_single_paper from the embedding on.
EmbedAndInsert(paper_id, chunks, env) ==
    LET embeddings == embed_batch(Texts(chunks.value), env.embedder)
    IN  IF embeddings.raised
        THEN Effects(embeddings, paper_id, chunks, <<Texts(chunks.value)>>, <<>>, <<>>, <<>>)
        ELSE LET vectors == Vectors(paper_id, chunks.value, embeddings.value)
                 c == insert_vectors(vectors, INSERT_BATCH_SIZE, env.resps)
             IN  Effects(Return(c.ret), paper_id, chunks, <<Texts(chunks.value)>>,
                         embeddings.value, <<vectors>>, c.sent)

\* The body without the test  if not chunks.
ingest_single_paper_try_unguarded(file, file_path, paper_id, metadata, env) ==
    LET id == IF paper_id = <<>> THEN env.uuid ELSE paper_id
        chunks == process_document(file, env.pdfReader, DocumentProcessor_chunk_size(None),
                                   id, WithFile(metadata, file_path))
    IN  IF chunks.raised THEN Effects(chunks, id, chunks, <<>>, <<>>, <<>>, <<>>)
        ELSE EmbedAndInsert(id, chunks, env)

\* The try block of ingest_single_paper. paper_id or str(uuid.uuid4()):
\* None and "" both take a fresh id. The pipeline builds its
\* DocumentProcessor with the default sizes.
ingest_single_paper_try(file, file_path, paper_id, metadata, env) ==
    LET id == IF paper_id = <<>> THEN env.uuid ELSE paper_id
        chunks == process_document(file, env.pdfReader, DocumentProcessor_chunk_size(None),
                                   id, WithFile(metadata, file_path))
    IN  IF chunks.raised THEN Effects(chunks, id, chunks, <<>>, <<>>, <<>>, <<>>)
        ELSE IF chunks.value = <<>>
             THEN Effects(Return(FALSE), id, chunks, <<>>, <<>>, <<>>, <<>>)
        ELSE EmbedAndInsert(id, chunks, env)

\* ingest_single_paper without its except clause.
ingest_single_paper_uncaught(file, file_path, paper_id, metadata, env) ==
    ingest_single_paper_try(file, file_path, paper_id, metadata, env)

\* ingest_single_paper: except Exception returns False.
ingest_single_paper(file, file_path, paper_id, metadata, env) ==
    LET done == ingest_single_paper_try(file, file_path, paper_id, metadata, env)
    IN  IF done.outcome.raised THEN [done EXCEPT !.outcome = Return(FALSE)] ELSE done

(***************************************************************************)
(* IngestionPipeline.ingest_from_directory                                 *)
(***************************************************************************)
PROJECT_ROOT == "/app"

\* PROJECT_ROOT / directory / name
FilePath(directory, name) == [root |-> PROJECT_ROOT, dir |-> directory, name |-> name]

\* The order of the paths of one directory: the order of their names.
NameOrder == <<"a", "b", "c", "d", "e">>

Rank(entry) == CHOOSE r \in 1..Len(NameOrder) : NameOrder[r] = entry.file.name.stem

\* item.is_file() and item.suffix.lower() in {".txt", ".pdf"}
Eligible(entries) ==
    {e \in entries : e.is_file /\ Lower(e.file.name.suffix) \in {".txt", ".pdf"}}

\* files.sort()
RECURSIVE Sorted(_)
Sorted(entries) ==
    IF entries = {} THEN <<>>
    ELSE LET first == CHOOSE e \in entries : \A o \in entries : Rank(e) <= Rank(o)
         IN  <<first>> \o Sorted(entries \ {first})

\* The metadata_extractor of the caller: it raises on the files it cannot
\* make sense of and gives a title for the others.
metadata_extractor(extractor, file) ==
    IF file.name.stem \in extractor.failsOn THEN Raise("ValueError")
    ELSE Return([title |-> Title])

\* The metadata of a file when no extractor is given.
DefaultMetadata(file) == [title |-> file.name.stem, source |-> "local_file"]

\* uuid.uuid4(): the id of the j-th call differs from those before it.
Uuid(j) == <<"u">> \o str(j)

\* What the j-th call of ingest_single_paper meets.
IngestEnv(env, j) ==
    [pdfReader |-> env.pdfReader, embedder |-> env.embedder, uuid |-> Uuid(j),
     resps |-> <<env.resps[j]>>]

\* One call of ingest_single_paper as the log keeps it.
IngestCall(file, file_path, done) == [file |-> file, file_path |-> file_path, done |-> done]

\* The loop of ingest_from_directory from file j on. The extractor is
\* called outside any try block: what it raises leaves the loop and the
\* method.
RECURSIVE IngestLoop(_, _, _, _, _, _, _)
IngestLoop(files, j, results, calls, directory, extractor, env) ==
    IF j > Len(files) THEN [outcome |-> Return(results), calls |-> calls]
    ELSE LET file == files[j].file
             file_path == FilePath(directory, file.name)
             metadata == IF extractor.given THEN metadata_extractor(extractor, file)
                         ELSE Return(DefaultMetadata(file))
         IN  IF metadata.raised THEN [outcome |-> metadata, calls |-> calls]
             ELSE LET done == ingest_single_paper(file, file_path, <<>>, metadata.value,
                                                  IngestEnv(env, j))
                  IN  IngestLoop(files, j + 1,
                                 Merge(results, file_path :> done.outcome.value),
                                 Append(calls, IngestCall(file, file_path, done)),
                                 directory, extractor, env)

ingest_from_directory(dir, extractor, env) ==
    IF ~dir.exists THEN [outcome |-> Return(<<>>), calls |-> <<>>]
    ELSE IngestLoop(Sorted(Eligible(dir.entries)), 1, <<>>, <<>>, dir.name, extractor, env)

(***************************************************************************)
(* Ingestion: inputs and scenario                                          *)
(***************************************************************************)
MaxFiles == 2

\* A file too short to give a chunk.
OneShort == [shapes |-> <<"short">>, seps |-> <<>>]

\* What a directory may hold: a paper, a note too short for a chunk, a PDF
\* of two pages, a file of another kind, and a subdirectory.
DirEntries ==
    {[is_file |-> TRUE, file |-> TextFile(FileName("a", ".txt"), OneLine)],
     [is_file |-> TRUE, file |-> TextFile(FileName("b", ".TXT"), OneShort)],
     [is_file |-> TRUE,
      file |-> PdfFile(FileName("c", ".pdf"), TRUE, <<Run("A", 60), Run("B", 60)>>)],
     [is_file |-> TRUE, file |-> TextFile(FileName("d", ".md"), OneLine)],
     [is_file |-> FALSE,
      file |-> [TextFile(FileName("e", ".txt"), NoLayout) EXCEPT !.readable = FALSE]]}

\* A path under which there is no file.
Missing == [TextFile(FileName("z", ".txt"), NoLayout) EXCEPT !.exists = FALSE]

\* A file of no bytes.
ZeroBytes == TextFile(FileName("y", ".txt"), NoLayout)

Directories ==
    {[exists |-> TRUE, name |-> "papers", entries |-> es] :
         es \in {x \in SUBSET DirEntries : Cardinality(x) <= MaxFiles}}
        \cup {[exists |-> FALSE, name |-> "papers", entries |-> {}]}

Extractors ==
    {[given |-> FALSE, failsOn |-> {}]}
        \cup {[given |-> TRUE, failsOn |-> stems] : stems \in SUBSET {"a", "b"}}

\* The responses a PUT of the directory scenario meets.
PutResponses ==
    {[delivered |-> FALSE, status |-> 0], [delivered |-> TRUE, status |-> 200],
     [delivered |-> TRUE, status |-> 500]}

\* The store after the requests of a call: a batch is upserted when the
\* answer is 200 or 201, and may have been when no answer arrived (applied).
RECURSIVE Upsert(_, _, _)
Upsert(held, requests, applied) ==
    IF requests = <<>> THEN held
    ELSE LET req == requests[1]
             stored == \/ req.resp.delivered /\ req.resp.status \in {200, 201}
                       \/ ~req.resp.delivered /\ applied
             batch == [id \in {req.batch[j].id : j \in 1..Len(req.batch)} |->
                          (CHOOSE d \in Ids(req.batch) : d.id = id).metadata["paper_id"]]
         IN  Upsert(IF stored THEN Merge(held, batch) ELSE held, Tail(requests), applied)

\* The store after the calls of ingest_single_paper of a log.
RECURSIVE UpsertAll(_, _, _)
UpsertAll(held, calls, applied) ==
    IF calls = <<>> THEN held
    ELSE UpsertAll(Upsert(held, calls[1].done.requests, applied), Tail(calls), applied)

InitIngest ==
    /\ disk \in Directories
    /\ services \in [pdfReader : BOOLEAN, embedder : {"up", "raises"}]
    /\ ingestLog = None
    /\ points = <<>>
    /\ source = None
    /\ chunkLog = None
    /\ runs = <<>>
    /\ RetrievalIdle
    /\ SessionIdle
    /\ EmbeddingIdle

\* One call of ingest_single_paper on a file of the directory, on a file of
\* no bytes or on a path without a file.
IngestSinglePaper(file, paper_id, metadata) ==
    /\ ingestLog = None
    /\ \E resp \in HttpResponses, applied \in BOOLEAN :
           LET file_path == FilePath(disk.name, file.name)
               env == [pdfReader |-> services.pdfReader, embedder |-> services.embedder,
                       uuid |-> Uuid(1), resps |-> <<resp>>]
               done == ingest_single_paper(file, file_path, paper_id, metadata, env)
           IN  /\ ingestLog' = [op |-> "ingest_single_paper", paper_id |-> paper_id,
                                metadata |-> metadata, extractor |-> None,
                                outcome |-> done.outcome,
                                calls |-> <<IngestCall(file, file_path, done)>>]
               /\ points' = Upsert(points, done.requests, applied)
    /\ UNCHANGED <<disk, services, source, chunkLog, runs, retrievalVars,
                 sessionVars, embeddingVars>>

IngestFromDirectory(extractor) ==
    /\ ingestLog = None
    /\ \E resps \in [1..MaxFiles -> PutResponses], applied \in BOOLEAN :
           LET env == [pdfReader |-> services.pdfReader, embedder |-> services.embedder,
                       resps |-> resps]
               done == ingest_from_directory(disk, extractor, env)
           IN  /\ ingestLog' = [op |-> "ingest_from_directory", paper_id |-> <<>>,
                                metadata |-> None, extractor |-> Some(extractor),
                                outcome |-> done.outcome, calls |-> done.calls]
               /\ points' = UpsertAll(points, done.calls, applied)
    /\ UNCHANGED <<disk, services, source, chunkLog, runs, retrievalVars,
                 sessionVars, embeddingVars>>

NextIngest ==
    \/ \E entry \in disk.entries, paper_id \in {<<>>, P1}, metadata \in CallerMetadata :
           IngestSinglePaper(entry.file, paper_id, metadata)
    \/ \E file \in {Missing, ZeroBytes}, metadata \in CallerMetadata :
           IngestSinglePaper(file, P1, metadata)
    \/ \E extractor \in Extractors : IngestFromDirectory(extractor)

SpecIngest == InitIngest /\ [][NextIngest]_vars

(***************************************************************************)
(* Ingestion: properties                                                   *)
(***************************************************************************)
\* The calls of ingest_single_paper of the last pipeline call.
IngestCalls ==
    IF ingestLog = None THEN {}
    ELSE {ingestLog.calls[j] : j \in 1..Len(ingestLog.calls)}

\* The files of which the chunker keeps nothing: no file under the path, a
\* file of no bytes, a text whose paragraphs are all too short.
NothingToKeep(file) ==
    \/ ~file.exists
    \/ /\ Lower(file.name.suffix) # ".pdf"
       /\ \A j \in 1..Len(file.layout.shapes) : file.layout.shapes[j] = "short"

\* process_document returned no chunk.
NoChunks(done) == ~done.chunks.raised /\ done.chunks.value = <<>>

\* C11: whenever the chunker yields zero chunks (a file of no bytes, a
\* missing file, a text with no retained paragraph), ingest_single_paper
\* returns False, does not call the embedding provider and sends no write
\* request to the store, which keeps what it held.
C11_NoChunksNoWrites ==
    /\ \A c \in IngestCalls :
           /\ NothingToKeep(c.file) => NoChunks(c.done)
           /\ NoChunks(c.done) =>
                  /\ ~c.done.outcome.raised
                  /\ c.done.outcome.value = FALSE
                  /\ c.done.embed_calls = <<>>
                  /\ c.done.insert_calls = <<>>
                  /\ c.done.requests = <<>>
    /\ (ingestLog # None /\ \A c \in IngestCalls : NoChunks(c.done)) => points = <<>>

\* A text whose only paragraph is too short was ingested while the embedding
\* model was up: the call returned False and nothing was embedded or sent.
C11_Witness ==
    /\ ingestLog # None
    /\ ingestLog.op = "ingest_single_paper"
    /\ services.embedder = "up"
    /\ ingestLog.calls[1].file.layout.shapes = <<"short">>
    /\ ingestLog.calls[1].file.exists
    /\ ingestLog.outcome = Return(FALSE)
    /\ ingestLog.calls[1].done.embed_calls = <<>>
    /\ ingestLog.calls[1].done.requests = <<>>

\* The response of a request reports success.
Accepted(resp) == resp.delivered /\ resp.status \in {200, 201}

\* insert_vectors was called, sent its requests and each was accepted.
InsertSucceeded(done) ==
    /\ done.insert_calls # <<>>
    /\ done.requests # <<>>
    /\ \A j \in 1..Len(done.requests) : Accepted(done.requests[j].resp)

\* At least one chunk was produced.
SomeChunks(done) == ~done.chunks.raised /\ done.chunks.value # <<>>

\* C12: ingest_single_paper never raises; it returns True exactly when at
\* least one chunk was produced and insert_vectors reported success, and
\* False whenever the chunking, the embedding or the upsert raises or
\* reports a failure.
C12_IngestNeverRaises ==
    \A c \in IngestCalls :
        /\ ~c.done.outcome.raised
        /\ c.done.outcome.value \in BOOLEAN
        /\ c.done.outcome.value <=> (SomeChunks(c.done) /\ InsertSucceeded(c.done))
        /\ c.done.chunks.raised => ~c.done.outcome.value
        /\ (SomeChunks(c.done) /\ services.embedder = "raises") => ~c.done.outcome.value
        /\ (\E j \in 1..Len(c.done.requests) : ~Accepted(c.done.requests[j].resp))
               => ~c.done.outcome.value

\* A directory was ingested without PyPDF2: the text file gave True, and the
\* PDF, whose chunking raised ImportError, gave False.
C12_Witness ==
    /\ ingestLog # None
    /\ ingestLog.op = "ingest_from_directory"
    /\ Len(ingestLog.calls) = 2
    /\ ingestLog.calls[1].done.outcome = Return(TRUE)
    /\ ingestLog.calls[2].done.chunks = Raise("ImportError")
    /\ ingestLog.calls[2].done.outcome = Return(FALSE)

\* n chunk texts of 60 characters.
ChunkTexts(n) == [j \in 1..n |-> Run(Letters[j], 60)]

\* The records follow the chunks: as many, in chunk order, record i with the
\* id '{paper_id}_chunk_{i}', the vector at position i and the metadata of
\* chunk i, which holds paper_id, chunk_index = i and total_chunks = n.
RecordsFollow(records, paper_id, chunks, embeddings) ==
    /\ Len(embeddings) = Len(chunks)
    /\ Len(records) = Len(chunks)
    /\ \A i \in 0..(Len(chunks) - 1) :
           /\ records[i + 1].id
                  = paper_id \o <<"_", "c", "h", "u", "n", "k", "_">> \o str(i)
           /\ records[i + 1].vector = embeddings[i + 1]
           /\ records[i + 1].vector.encoded = chunks[i + 1].text
           /\ records[i + 1].metadata = chunks[i + 1].metadata
           /\ records[i + 1].metadata["paper_id"] = paper_id
           /\ records[i + 1].metadata["chunk_index"] = i
           /\ records[i + 1].metadata["total_chunks"] = Len(chunks)

\* C13: for n >= 1 chunks whose embeddings were returned, ingest_single_paper
\* passes to a single insert_vectors call exactly n records, in chunk order:
\* record i has the id '{paper_id}_chunk_{i}', the vector embed_batch
\* returned at position i and the metadata of chunk i, which holds paper_id,
\* chunk_index = i, total_chunks = n, file_path and file_name. The second
\* conjunct is the loop that builds the records on n chunks, for the values
\* of n that the chunker does not reach.
C13_RecordsFollowChunks ==
    /\ \A c \in IngestCalls :
           (SomeChunks(c.done) /\ services.embedder = "up") =>
               /\ Len(c.done.embed_calls) = 1
               /\ Len(c.done.insert_calls) = 1
               /\ RecordsFollow(c.done.insert_calls[1], c.done.paper_id,
                                c.done.chunks.value, c.done.embeddings)
               /\ \A i \in 1..Len(c.done.insert_calls[1]) :
                      /\ c.done.insert_calls[1][i].metadata["file_path"] = c.file_path
                      /\ c.done.insert_calls[1][i].metadata["file_name"] = c.file_path.name
    /\ \A n \in 1..MaxParagraphs :
           LET chunks == DocumentChunks(ChunkTexts(n), P1, None)
               embeddings == embed_batch(Texts(chunks), "up").value
           IN  RecordsFollow(Vectors(P1, chunks, embeddings), P1, chunks, embeddings)

\* The paper p1 was ingested from a.txt with metadata that already named
\* another paper: one record went to insert_vectors, with the id p1_chunk_0.
C13_Witness ==
    /\ ingestLog # None
    /\ ingestLog.op = "ingest_single_paper"
    /\ ingestLog.paper_id = P1
    /\ ingestLog.metadata # None
    /\ "paper_id" \in DOMAIN ingestLog.metadata
    /\ Len(ingestLog.calls[1].done.insert_calls) = 1
    /\ Len(ingestLog.calls[1].done.insert_calls[1]) = 1
    /\ ingestLog.calls[1].done.insert_calls[1][1].id
           = <<"p", "1", "_", "c", "h", "u", "n", "k", "_", "0">>
    /\ ingestLog.calls[1].done.insert_calls[1][1].metadata["file_name"]
           = FileName("a", ".txt")

(***************************************************************************)
(* The chunker: properties                                                 *)
(***************************************************************************)
\* process_document was called and returned.
Processed ==
    chunkLog # None /\ chunkLog.op = "process_document" /\ ~chunkLog.outcome.raised

\* The chunks are numbered 0..n-1 in order, and the metadata of each holds
\* its number, the number of chunks and the paper id.
Numbered(chunks, paper_id) ==
    \A j \in 1..Len(chunks) :
        /\ chunks[j].chunk_index = j - 1
        /\ chunks[j].metadata["chunk_index"] = j - 1
        /\ chunks[j].metadata["total_chunks"] = Len(chunks)
        /\ chunks[j].metadata["paper_id"] = paper_id

\* C14: for process_document(file, paper_id, metadata) returning n chunks, the
\* chunk_index values are exactly 0..n-1 in order, each chunk's metadata holds
\* the same chunk_index, total_chunks = n and the paper_id of the argument,
\* also when the caller's metadata already has entries under these keys. The
\* second conjunct is the loop that builds the chunks on n texts, for the
\* values of n that the text of a document does not reach.
C14_ChunkNumbering ==
    /\ Processed => Numbered(chunkLog.outcome.value, chunkLog.paper_id)
    /\ \A n \in 0..MaxParagraphs, metadata \in CallerMetadata :
           /\ Len(DocumentChunks(ChunkTexts(n), P1, metadata)) = n
           /\ Numbered(DocumentChunks(ChunkTexts(n), P1, metadata), P1)

\* The caller's metadata named paper x, chunk 9 of 9: the chunk that came
\* back is chunk 0 of 1 of paper p1.
C14_Witness ==
    /\ Processed
    /\ chunkLog.metadata = [paper_id |-> PX, chunk_index |-> 9, total_chunks |-> 9]
    /\ Len(chunkLog.outcome.value) = 1
    /\ chunkLog.outcome.value[1].metadata["paper_id"] = P1
    /\ chunkLog.outcome.value[1].metadata["chunk_index"] = 0
    /\ chunkLog.outcome.value[1].metadata["total_chunks"] = 1

\* The document is a readable text file of k >= 2 paragraphs, each longer
\* than the minimum, no two neighbours fitting together under the maximum.
ParagraphsApart(file, chunk_size) ==
    LET written == WrittenParagraphs(file.layout)
    IN  /\ file.exists /\ file.readable
        /\ Lower(file.name.suffix) # ".pdf"
        /\ Len(written) >= 2
        /\ \A j \in 1..Len(written) : StrLen(written[j]) > MinParagraphLength
        /\ \A j \in 1..(Len(written) - 1) :
               StrLen(written[j]) + 2 + StrLen(written[j + 1]) > chunk_size

\* C15: process_document splits the normalized text on blank lines into
\* paragraphs before packing: a raw text of k >= 2 paragraphs separated by
\* blank lines, each longer than the minimum and no two fitting together
\* under the maximum, yields k chunks.
C15_BlankLinesSplit ==
    (Processed /\ ParagraphsApart(source.file, DocumentProcessor_chunk_size(source.chunk_size)))
        => Len(chunkLog.outcome.value) = Len(source.file.layout.shapes)

\* split_into_chunks was called.
Split == chunkLog # None /\ chunkLog.op = "split_into_chunks"

\* The paragraphs of the document that are longer than the minimum, in order.
RECURSIVE LongEnough(_)
LongEnough(paragraphs) ==
    IF paragraphs = <<>> THEN <<>>
    ELSE IF StrLen(paragraphs[1]) > MinParagraphLength
         THEN <<paragraphs[1]>> \o LongEnough(Tail(paragraphs))
         ELSE LongEnough(Tail(paragraphs))

RetainedParagraphs == LongEnough(WrittenParagraphs(source.file.layout))

\* The paragraphs that f puts into chunk c, f being non-decreasing.
Group(paragraphs, f, c) ==
    LET members == {j \in 1..Len(paragraphs) : f[j] = c}
    IN  [k \in 1..Cardinality(members) |->
            paragraphs[(CHOOSE lo \in members : \A j \in members : lo <= j) + k - 1]]

\* C16: split_into_chunks in paragraph mode puts every retained paragraph in
\* exactly one chunk, whole and in order (the chunks joined by blank lines
\* are the retained paragraphs joined by blank lines), and every chunk is at
\* most as long as the configured maximum unless it is a single paragraph
\* that is itself longer than the maximum.
C16_ParagraphsWholeAndBounded ==
    Split =>
        LET chunks == chunkLog.outcome.value
            paragraphs == RetainedParagraphs
            max == DocumentProcessor_chunk_size(source.chunk_size)
        IN  /\ JoinByBlankLine(chunks) = JoinByBlankLine(paragraphs)
            /\ \E f \in [1..Len(paragraphs) -> 1..Len(chunks)] :
                   /\ \A j \in 1..(Len(paragraphs) - 1) : f[j] <= f[j + 1]
                   /\ \A c \in 1..Len(chunks) :
                          /\ \E j \in 1..Len(paragraphs) : f[j] = c
                          /\ chunks[c] = JoinByBlankLine(Group(paragraphs, f, c))
            /\ \A c \in 1..Len(chunks) :
                   \/ StrLen(chunks[c]) <= max
                   \/ \E j \in 1..Len(paragraphs) :
                          chunks[c] = paragraphs[j] /\ StrLen(paragraphs[j]) > max

\* Two paragraphs of 60 characters and one of 200 under a maximum of 150: the
\* first chunk holds the first two, the second is the long paragraph alone.
C16_Witness ==
    /\ Split
    /\ source.file.layout.shapes = <<"line", "line", "long">>
    /\ source.chunk_size = Some(150)
    /\ Len(chunkLog.outcome.value) = 2
    /\ StrLen(chunkLog.outcome.value[1]) = 122
    /\ chunkLog.outcome.value[2] = Run("C", 200)

\* Appending para to the paragraphs of the chunk in progress is allowed:
\* the chunk joined by blank lines stays within (strict: below) the limit.
Fits(group, para, limit, strict) ==
    LET length == StrLen(JoinByBlankLine(Append(group, para)))
    IN  IF strict THEN length < limit ELSE length <= limit

\* The greedy rule: a paragraph joins the chunk in progress whenever it
\* fits, and otherwise closes it and starts the next one.
RECURSIVE GreedyGroups(_, _, _, _)
GreedyGroups(paragraphs, group, limit, strict) ==
    IF paragraphs = <<>> THEN (IF group = <<>> THEN <<>> ELSE <<group>>)
    ELSE IF group = <<>> \/ Fits(group, paragraphs[1], limit, strict)
         THEN GreedyGroups(Tail(paragraphs), Append(group, paragraphs[1]), limit, strict)
         ELSE <<group>> \o GreedyGroups(Tail(paragraphs), <<paragraphs[1]>>, limit, strict)

GreedyChunks(paragraphs, limit, strict) ==
    LET groups == GreedyGroups(paragraphs, <<>>, limit, strict)
    IN  [g \in 1..Len(groups) |-> JoinByBlankLine(groups[g])]

\* C17 as stated: the next paragraph is appended whenever the resulting chunk
\* (joined by a blank line) does not exceed the maximum, and the chunk is
\* closed and a new one started exactly when appending would exceed it.
C17_GreedyUpToMaximum ==
    Split =>
        chunkLog.outcome.value
            = GreedyChunks(RetainedParagraphs,
                           DocumentProcessor_chunk_size(source.chunk_size), FALSE)

\* C17 amended: the next paragraph is appended whenever the resulting chunk
\* (joined by a blank line) is shorter than the maximum, and the chunk is
\* closed and a new one started exactly when appending would reach or exceed
\* it; three paragraphs of 60 characters under a maximum of 150 give two
\* chunks, the first holding the first two.
C17_GreedyBelowMaximum ==
    /\ Split =>
           chunkLog.outcome.value
               = GreedyChunks(RetainedParagraphs,
                              DocumentProcessor_chunk_size(source.chunk_size), TRUE)
    /\ (/\ Split
        /\ source.file.layout.shapes = <<"line", "line", "line">>
        /\ source.chunk_size = Some(150))
           => /\ Len(chunkLog.outcome.value) = 2
              /\ chunkLog.outcome.value[1] = Run("A", 60) \o Run("\n", 2) \o Run("B", 60)
              /\ chunkLog.outcome.value[2] = Run("C", 60)

\* Two paragraphs of 60 characters under a maximum of 122, the length of the
\* two joined by a blank line: each is a chunk of its own.
C17_Witness ==
    /\ Split
    /\ source.file.layout.shapes = <<"line", "line">>
    /\ source.chunk_size = Some(122)
    /\ chunkLog.outcome.value = <<Run("A", 60), Run("B", 60)>>

\* The sources that give no text: a missing file, a file that cannot be read
\* or decoded, a PDF whose text cannot be extracted, an empty text.
NoText(file, pdfReader) ==
    \/ ~file.exists
    \/ ~file.readable
    \/ Lower(file.name.suffix) = ".pdf" /\ (~pdfReader \/ PagesText(file.pages) = <<>>)
    \/ Lower(file.name.suffix) # ".pdf" /\ file.text = <<>>

\* C18: process_document never raises for an unreadable or empty source: for
\* a missing file, an unreadable or undecodable file, a PDF whose text cannot
\* be extracted (the PDF collaborator being unavailable included) or an empty
\* text it returns the empty chunk sequence.
C18_ChunkerNeverRaises ==
    (chunkLog # None /\ chunkLog.op = "process_document") =>
        /\ ~chunkLog.outcome.raised
        /\ NoText(source.file, source.pdfReader) => chunkLog.outcome.value = <<>>

(***************************************************************************)
(* Directory ingestion: properties                                         *)
(***************************************************************************)
\* The paths of the files of the directory that are to be ingested: the
\* regular files whose suffix is .txt or .pdf in either case.
EligiblePaths ==
    {FilePath(disk.name, e.file.name) :
         e \in {x \in disk.entries :
                    x.is_file /\ x.file.name.suffix \in {".txt", ".TXT", ".pdf", ".PDF"}}}

\* C19: ingest_from_directory attempts every eligible file whatever happened
\* to the files before it, be it that the ingestion of an earlier file failed
\* or that the computation of its metadata through metadata_extractor failed,
\* and returns a mapping with exactly one entry for each eligible file.
C19_DirectoryAttemptsEveryFile ==
    (ingestLog # None /\ ingestLog.op = "ingest_from_directory") =>
        /\ ~ingestLog.outcome.raised
        /\ DOMAIN ingestLog.outcome.value = EligiblePaths
        /\ {ingestLog.calls[j].file_path : j \in 1..Len(ingestLog.calls)} = EligiblePaths
        /\ Len(ingestLog.calls) = Cardinality(EligiblePaths)

(***************************************************************************)
(* Two ingestion runs on one store                                         *)
(***************************************************************************)
MaxChunkIndex == 11

\* The paper ids of the runs: none given, and ids that hold digits and the
\* separator of the record ids themselves.
RunPaperIds ==
    {<<>>, <<"p">>, P1,
     <<"p", "_", "c", "h", "u", "n", "k", "_", "1">>,
     <<"p", "1", "_", "c", "h", "u", "n", "k", "_", "0">>}

RunFiles == {TextFile(FileName("a", ".txt"), OneLine), TextFile(FileName("b", ".txt"), OneShort)}

\* A run of ingest_single_paper before its first step.
NewRun(paper_id, file) ==
    [paper_id |-> paper_id, file |-> file, pc |-> "start", id |-> <<>>,
     call |-> Idle, ret |-> FALSE]

InitRuns ==
    /\ runs \in [1..2 -> {NewRun(paper_id, file) : paper_id \in RunPaperIds, file \in RunFiles}]
    /\ points = <<>>
    /\ services \in [pdfReader : {TRUE}, embedder : {"up", "raises"}]
    /\ disk = <<>>
    /\ ingestLog = None
    /\ source = None
    /\ chunkLog = None
    /\ RetrievalIdle
    /\ SessionIdle
    /\ EmbeddingIdle

\* Run r goes from its entry to the call of insert_vectors: it takes its
\* paper id, chunks the file, embeds the chunks and builds the records. A
\* run that has nothing to insert returns here.
StartRun(r) ==
    /\ runs[r].pc = "start"
    /\ LET env == [pdfReader |-> services.pdfReader, embedder |-> services.embedder,
                   uuid |-> Uuid(r), resps |-> <<>>]
           done == ingest_single_paper(runs[r].file, FilePath("papers", runs[r].file.name),
                                       runs[r].paper_id, None, env)
           entered == insert_vectors_enter(done.insert_calls[1], INSERT_BATCH_SIZE)
       IN  runs' = [runs EXCEPT ![r] =
                       IF done.insert_calls = <<>>
                       THEN [@ EXCEPT !.pc = "done", !.id = done.paper_id,
                                      !.ret = done.outcome.value]
                       ELSE [@ EXCEPT !.pc = IF entered.pc = "loop" THEN "insert" ELSE "done",
                                      !.id = done.paper_id, !.call = entered,
                                      !.ret = entered.ret]]
    /\ UNCHANGED <<points, disk, services, ingestLog, chunkerVars, retrievalVars,
                 sessionVars, embeddingVars>>

\* The keys of a batch, each with the runs that have written it.
WrittenBy(held, batch, r) ==
    [id \in {batch[j].id : j \in 1..Len(batch)} |->
        IF id \in DOMAIN held THEN held[id] \cup {r} ELSE {r}]

\* Run r sends the PUT of its next batch: the store upserts the records when
\* it answers 200 or 201, and may have done so when no answer arrives.
PutRun(r) ==
    /\ runs[r].pc = "insert"
    /\ \E resp \in PutResponses, applied \in BOOLEAN :
           LET c == runs[r].call
               next == insert_vectors_step(c, resp)
               stored == Accepted(resp) \/ (~resp.delivered /\ applied)
           IN  /\ runs' = [runs EXCEPT ![r] =
                              [@ EXCEPT !.call = next, !.ret = next.ret,
                                        !.pc = IF next.pc = "loop" THEN "insert" ELSE "done"]]
               /\ points' = IF stored
                            THEN Merge(points, WrittenBy(points, Batch(c.documents, c.i, c.batch_size), r))
                            ELSE points
    /\ UNCHANGED <<disk, services, ingestLog, chunkerVars, retrievalVars,
                 sessionVars, embeddingVars>>

NextRuns == \E r \in 1..2 : StartRun(r) \/ PutRun(r)

SpecRuns == InitRuns /\ [][NextRuns]_vars

\* C20: two ingestion runs for different paper ids never write the same
\* store key: the record id '{paper_id}_chunk_{chunk_index}' determines both
\* the paper id and the chunk index, so that under any interleaving of the
\* upsert batches of the two runs neither overwrites a record of the other.
C20_RunsNeverShareKeys ==
    (/\ runs[1].pc # "start"
     /\ runs[2].pc # "start"
     /\ runs[1].id # runs[2].id)
        => /\ \A i, j \in 0..MaxChunkIndex :
                  vector_id(runs[1].id, i) # vector_id(runs[2].id, j)
           /\ \A r \in 1..2 : \A i, j \in 0..MaxChunkIndex :
                  vector_id(runs[r].id, i) = vector_id(runs[r].id, j) => i = j
           /\ \A id \in DOMAIN points : Cardinality(points[id]) = 1

\* The runs for the papers p and p_chunk_1 have both returned True: the
\* store holds p_chunk_0 written by the first and p_chunk_1_chunk_0 written
\* by the second.
C20_Witness ==
    /\ runs[1].pc = "done" /\ runs[1].ret
    /\ runs[2].pc = "done" /\ runs[2].ret
    /\ runs[1].id = <<"p">>
    /\ runs[2].id = <<"p", "_", "c", "h", "u", "n", "k", "_", "1">>
    /\ DOMAIN points = {<<"p", "_", "c", "h", "u", "n", "k", "_", "0">>,
                        <<"p", "_", "c", "h", "u", "n", "k", "_", "1",
                          "_", "c", "h", "u", "n", "k", "_", "0">>}
    /\ points[<<"p", "_", "c", "h", "u", "n", "k", "_", "0">>] = {1}

(***************************************************************************)
(* A session: the engine, the pipeline and the gateway on one store        *)
(***************************************************************************)
ENDEE_COLLECTION == "research_papers"

\* A request on the wire, with what it carried and the answer it met.
Wire(method, path, body, resp) ==
    [method |-> method, path |-> path, body |-> body, resp |-> resp]

\* The records of a PUT body as the store keeps them: metadata under id.
Points(batch) ==
    [id \in {batch[j].id : j \in 1..Len(batch)} |->
        (CHOOSE d \in Ids(batch) : d.id = id).metadata]

\* The store after one request. PUT /api/v1/points upserts the records when
\* the answer is 200 or 201; DELETE /api/v1/index/{collection} drops them
\* all when it is 200 or 204; either may have been carried out when no
\* answer arrived (applied). Every other request leaves the records alone.
Served(held, w, applied) ==
    LET lost == ~w.resp.delivered /\ applied
    IN  IF w.method = "PUT"
        THEN IF (w.resp.delivered /\ w.resp.status \in {200, 201}) \/ lost
             THEN Merge(held, Points(w.body)) ELSE held
        ELSE IF w.method = "DELETE"
        THEN IF (w.resp.delivered /\ w.resp.status \in {200, 204}) \/ lost
             THEN <<>> ELSE held
        ELSE held

RECURSIVE ServedAll(_, _, _)
ServedAll(held, wire, applied) ==
    IF wire = <<>> THEN held
    ELSE ServedAll(Served(held, wire[1], applied), Tail(wire), applied)

\* What the store answers to a DELETE: 404 only when it holds nothing.
DeleteResponses(held) ==
    {resp \in HttpResponses : resp.status = 404 => held = <<>>}

\* EndeeClient.delete_collection on the session's store.
session_delete_collection(resp) ==
    [ret |-> delete_collection(resp).value,
     wire |-> <<Wire("DELETE", "/api/v1/index/" \o ENDEE_COLLECTION, None, resp)>>]

\* The requests of an ingestion that empties the collection first.
PutWire_resetting(sent) ==
    <<Wire("DELETE", "/api/v1/index/" \o ENDEE_COLLECTION, None,
           [delivered |-> TRUE, status |-> 200])>>
        \o [j \in 1..Len(sent) |->
               Wire("PUT", "/api/v1/points", sent[j].batch, sent[j].resp)]

\* The requests of insert_vectors as they are on the wire.
PutWire(sent) ==
    [j \in 1..Len(sent) |-> Wire("PUT", "/api/v1/points", sent[j].batch, sent[j].resp)]

\* A stored record as a hit of the given score.
Hit(metadata, score) ==
    [score |-> score,
     metadata |-> [isDict |-> TRUE, paper_id |-> Some(metadata["paper_id"]),
                   title |-> None, chunk_text |-> Some(metadata["chunk_text"]),
                   chunk_index |-> Some(metadata["chunk_index"])]]

\* The hits the store ranks for a query: the first chunks of the papers it
\* holds, in the order and with the scores the query gives them.
RECURSIVE Hits(_, _)
Hits(held, order) ==
    IF order = <<>> THEN <<>>
    ELSE LET id == vector_id(order[1].paper_id, 0)
         IN  IF id \in DOMAIN held
             THEN <<Hit(held[id], order[1].score)>> \o Hits(held, Tail(order))
             ELSE Hits(held, Tail(order))

\* EmbeddingModel.embed_text: the vector of a text is the text it encodes.
embed_text(text) == [encoded |-> text]

\* The arguments of one call of SearchEngine.search.
SearchCall(query, top_k, filter_metadata, min_similarity) ==
    [query |-> query, top_k |-> top_k, filter_metadata |-> filter_metadata,
     min_similarity |-> min_similarity]

\* SearchEngine.search of the call s on the store holding held, under
\* condition f: the value returned and the requests on the wire.
session_search(s, f, order, held) ==
    LET hits == Hits(held, order[s.query])
        out == SearchEngine_search(f, hits, TOP_K_RESULTS, s.top_k, s.min_similarity)
    IN  [ret |-> out.result,
         wire |-> [j \in 1..Len(out.requests) |->
                      Wire("POST", "/api/v1/search",
                           [vector |-> embed_text(s.query), k |-> out.requests[j].arg,
                            filter |-> s.filter_metadata],
                           HttpPostSearch(f, hits, out.requests[j].arg))]]

\* f"NOT {query} OR contrary OR opposite OR different from"
negation_query(query) ==
    "NOT " \o query \o " OR contrary OR opposite OR different from"

\* find_contradictions searching for the query itself.
find_contradictions_plain(query, top_k) ==
    <<SearchCall(query, Some(top_k), None, None)>>

\* SearchEngine.find_contradictions(query, top_k): the calls of self.search
\* it makes; it returns what the last one returns.
find_contradictions(query, top_k) ==
    <<SearchCall(negation_query(query), Some(top_k), None, None)>>

\* The calls of self.search of a method, one after the other: what the
\* last one returned and the requests of all of them.
RECURSIVE Searches(_, _, _, _, _)
Searches(searches, f, order, held, wire) ==
    IF searches = <<>> THEN [ret |-> <<>>, wire |-> wire]
    ELSE LET out == session_search(searches[1], f, order, held)
         IN  IF Len(searches) = 1 THEN [ret |-> out.ret, wire |-> wire \o out.wire]
             ELSE Searches(Tail(searches), f, order, held, wire \o out.wire)

\* SearchEngine.find_related_papers on the session's store.
session_find_related_papers(gw, held, f, hits, paper_id, top_k) ==
    LET out == find_related_papers(gw, DOMAIN held, f, hits, paper_id, top_k)
    IN  [ret |-> out.result,
         wire |-> [j \in 1..Len(out.requests) |->
                      IF out.requests[j].op = "search"
                      THEN Wire("POST", "/api/v1/search", out.requests[j].arg,
                                HttpPostSearch(f, hits, top_k * 3))
                      ELSE Wire("GET", "/api/v1/points", out.requests[j].arg, None)]]

\* IngestionPipeline.ingest_single_paper on the session's store.
session_ingest_single_paper(file, paper_id, resp) ==
    LET env == [pdfReader |-> TRUE, embedder |-> "up", uuid |-> Uuid(1), resps |-> <<resp>>]
        done == ingest_single_paper(file, FilePath("papers", file.name), paper_id, None, env)
    IN  [ret |-> done.outcome.value, wire |-> PutWire(done.requests)]

(***************************************************************************)
(* The session: inputs and scenario                                        *)
(***************************************************************************)
SessionQueries == {"cats"}

AllQueries == SessionQueries \cup {negation_query(query) : query \in SessionQueries}

\* The orders in which a query may rank the papers, with the scores.
Orders ==
    {<<[paper_id |-> P1, score |-> 9], [paper_id |-> PX, score |-> 5]>>,
     <<[paper_id |-> PX, score |-> 9], [paper_id |-> P1, score |-> 2]>>}

SessionFaults == {"none", "embed", "status500"}

\* Three paragraphs of 200 characters between blank lines.
ThreeLong ==
    [shapes |-> <<"long", "long", "long">>, seps |-> <<Run("\n", 2), Run("\n", 2)>>]

SessionFiles ==
    {TextFile(FileName("a", ".txt"), OneLine), TextFile(FileName("b", ".txt"), OneShort),
     TextFile(FileName("c", ".txt"), ThreeLong)}

\* Whether the store carried out a request: one whose answer is lost may or
\* may not have been.
Applied(resp) == IF resp.delivered THEN {FALSE} ELSE BOOLEAN

\* The engine's own state: the attributes SearchEngine.__init__ sets.
Engine == [endee_client |-> gateway, top_k |-> TOP_K_RESULTS]

\* What the journal keeps of the call before the last one.
Abridged(entry) == [op |-> entry.op, ret |-> entry.ret]

Logged(entry) ==
    IF journal = <<>> THEN <<entry>> ELSE <<Abridged(journal[Len(journal)]), entry>>

InitSession ==
    /\ journal = <<>>
    /\ ranking \in {order \in [AllQueries -> Orders] :
                       \A query \in SessionQueries :
                           order[query] # order[negation_query(query)]}
    /\ PipelineIdle
    /\ RetrievalIdle
    /\ EmbeddingIdle

\* One call of the session: it is entered in the journal with the store and
\* the engine as they were before it, and the store serves its requests.
SessionCall(op, args, f, searches, out, applied) ==
    /\ journal' = Logged([op |-> op, args |-> args, ret |-> out.ret, wire |-> out.wire,
                          searches |-> searches, fault |-> f, before |-> points,
                          engine |-> Engine])
    /\ points' = ServedAll(points, out.wire, applied)
    /\ UNCHANGED <<retrievalVars, chunkerVars, ingestVars, runs, ranking, embeddingVars>>

SessionSearch(query, top_k, min_similarity) ==
    \E f \in SessionFaults :
        LET s == SearchCall(query, top_k, None, min_similarity)
        IN  SessionCall("search", s, f, <<s>>, session_search(s, f, ranking, points), FALSE)

SessionFindContradictions(query, top_k) ==
    \E f \in SessionFaults :
        LET searches == find_contradictions(query, top_k)
        IN  SessionCall("find_contradictions", [query |-> query, top_k |-> top_k], f,
                        searches, Searches(searches, f, ranking, points, <<>>), FALSE)

SessionFindRelatedPapers(paper_id, top_k) ==
    \E f \in {"none"}, query \in SessionQueries :
        SessionCall("find_related_papers", [paper_id |-> paper_id, top_k |-> top_k], f, <<>>,
                    session_find_related_papers(gateway, points, f,
                                                Hits(points, ranking[query]), paper_id, top_k),
                    FALSE)

\* aggregate_results_by_paper on the matches the last search returned.
SessionAggregate ==
    /\ journal # <<>>
    /\ journal[Len(journal)].op \in {"search", "find_contradictions", "find_related_papers"}
    /\ LET matches == journal[Len(journal)].ret
       IN  SessionCall("aggregate_results_by_paper", matches, "none", <<>>,
                       [ret |-> aggregate_results_by_paper(matches), wire |-> <<>>], FALSE)

\* The ingestions of the scenario: each file under each paper id, meeting
\* each answer of the store.
SessionIngestions ==
    {[args |-> [file |-> file, paper_id |-> paper_id], resp |-> resp,
      out |-> session_ingest_single_paper(file, paper_id, resp)] :
         file \in SessionFiles, paper_id \in {P1, PX}, resp \in PutResponses}

SessionIngest(file, paper_id) ==
    \E ingestion \in SessionIngestions :
        /\ ingestion.args.file = file
        /\ ingestion.args.paper_id = paper_id
        /\ \E applied \in Applied(ingestion.resp) :
               SessionCall("ingest_single_paper", ingestion.args, "none", <<>>,
                           ingestion.out, applied)

SessionDelete ==
    \E resp \in DeleteResponses(points) : \E applied \in Applied(resp) :
        SessionCall("delete_collection", None, "none", <<>>,
                    session_delete_collection(resp), applied)

NextSession ==
    \/ \E query \in AllQueries, top_k \in TopKs, min_similarity \in {None, Some(9)} :
           SessionSearch(query, top_k, min_similarity)
    \/ \E query \in SessionQueries, top_k \in 0..1 : SessionFindContradictions(query, top_k)
    \/ \E paper_id \in {P1, PX}, top_k \in 0..1 : SessionFindRelatedPapers(paper_id, top_k)
    \/ SessionAggregate
    \/ \E file \in SessionFiles, paper_id \in {P1, PX} : SessionIngest(file, paper_id)
    \/ SessionDelete

SpecSession == InitSession /\ [][NextSession]_vars

(***************************************************************************)
(* The session: properties                                                 *)
(***************************************************************************)
\* The last call of the session.
Latest == journal[Len(journal)]

\* The last call was a call of op.
LatestIs(op) == journal # <<>> /\ Latest.op = op

\* C21: delete_collection is idempotent. It returns True when the store
\* answers 200, 204 or 404 and False on any other status and on a transport
\* error; a call that returned True leaves no record in the store, and a
\* second call right after it, which finds the collection absent, returns
\* True as well.
C21_DeleteIdempotent ==
    LatestIs("delete_collection") =>
        LET resp == Latest.wire[1].resp
        IN  /\ Len(Latest.wire) = 1
            /\ Latest.wire[1].method = "DELETE"
            /\ Latest.ret = (resp.delivered /\ resp.status \in {200, 204, 404})
            /\ Latest.ret = TRUE => points = <<>>
            /\ (/\ Len(journal) = 2
                /\ journal[1].op = "delete_collection"
                /\ journal[1].ret = TRUE
                /\ resp.delivered
                /\ resp.status = 404) => Latest.ret = TRUE

\* Two calls of delete_collection in a row on a store that holds nothing: the
\* first returned True, the second was answered 404 and returned True too.
C21_Witness ==
    /\ Len(journal) = 2
    /\ journal[1].op = "delete_collection"
    /\ journal[1].ret = TRUE
    /\ LatestIs("delete_collection")
    /\ Latest.wire[1].resp.status = 404
    /\ Latest.before = <<>>
    /\ Latest.ret = TRUE

\* The records the store holds of a paper.
RecordsOf(paper_id) == {id \in DOMAIN points : points[id]["paper_id"] = paper_id}

ReadOperations ==
    {"search", "find_related_papers", "find_contradictions", "aggregate_results_by_paper"}

\* The HTTP methods of the requests of the last call.
LatestMethods == {Latest.wire[j].method : j \in 1..Len(Latest.wire)}

\* C27: the methods of SearchEngine send neither PUT nor DELETE and leave
\* the records of the store and the attributes of the engine as they were;
\* ingest_single_paper sends no DELETE; and a record the store held before a
\* call is gone after it only when the call was delete_collection.
C27_OnlyResetRemoves ==
    journal # <<>> =>
        /\ Latest.op \in ReadOperations =>
               /\ LatestMethods \cap {"PUT", "DELETE"} = {}
               /\ points = Latest.before
               /\ Engine = Latest.engine
        /\ Latest.op = "ingest_single_paper" => "DELETE" \notin LatestMethods
        /\ (\E id \in DOMAIN Latest.before : id \notin DOMAIN points) =>
               Latest.op = "delete_collection"

\* A search that returned a match from a store that holds records: it sent
\* its POST and the records are all still there.
C27_Witness ==
    /\ LatestIs("search")
    /\ Latest.ret # <<>>
    /\ LatestMethods = {"POST"}
    /\ Latest.before # <<>>
    /\ points = Latest.before

\* The search find_contradictions(query, top_k) stands for.
NegatedSearch(args, min_similarity) ==
    SearchCall(negation_query(args.query), Some(args.top_k), None, min_similarity)

\* search on the store as it was before the last call, under the conditions
\* of that call.
SearchOnStoreBefore(searched) ==
    session_search(searched, Latest.fault, ranking, Latest.before)

RECURSIVE SentRecords(_)
SentRecords(sent) ==
    IF sent = <<>> THEN <<>> ELSE sent[1].batch \o SentRecords(Tail(sent))

\* ceil(n / d) for d >= 1
CeilDiv(n, d) == (n + d - 1) \div d

\* Every request of the call in the state was answered 200 or 201.
EveryBatchAccepted ==
    \A j \in 1..Len(call.sent) :
        call.sent[j].resp.delivered /\ call.sent[j].resp.status \in {200, 201}

\* C26: when insert_vectors(documents, batch_size), batch_size >= 1, has
\* ended and each of its requests succeeded, it has sent
\* ceil(len(documents) / batch_size) requests of at most batch_size records,
\* the records of the requests in the order sent are documents itself, and
\* it returned True.
C26_BatchesCoverDocuments ==
    (/\ call.op = "insert_vectors"
     /\ call.pc = "done"
     /\ call.batch_size >= 1
     /\ EveryBatchAccepted) =>
        /\ Len(call.sent) = CeilDiv(Len(call.documents), call.batch_size)
        /\ \A j \in 1..Len(call.sent) : Len(call.sent[j].batch) <= call.batch_size
        /\ SentRecords(call.sent) = call.documents
        /\ ~call.raised
        /\ call.ret = TRUE

\* Three records in batches of two: two requests, both accepted, the second
\* with the one record left.
C26_Witness ==
    /\ call.op = "insert_vectors"
    /\ call.pc = "done"
    /\ Len(call.documents) = 3
    /\ call.batch_size = 2
    /\ EveryBatchAccepted
    /\ Len(call.sent) = 2
    /\ Len(call.sent[2].batch) = 1
    /\ call.ret = TRUE

(***************************************************************************)
(* The ingest command (src/scripts/ingest_papers.py)                       *)
(***************************************************************************)
\* A path as the user types it: a directory, or a file of a directory.
RawPath(dir, file) == [dir |-> dir, file |-> file]

\* resolve_path: a path that is not absolute is taken under PROJECT_ROOT.
resolve_path(path_str) ==
    [root |-> PROJECT_ROOT, dir |-> path_str.dir, file |-> path_str.file]

\* The entries of the file system under a resolved path.
EntriesAt(fs, path) ==
    IF ~fs.exists \/ fs.name # path.dir THEN {}
    ELSE IF path.file = None THEN fs.entries
    ELSE {e \in fs.entries : e.file.name = path.file[1]}

\* path.exists()
path_exists(fs, path) ==
    /\ fs.exists
    /\ fs.name = path.dir
    /\ path.file # None => EntriesAt(fs, path) # {}

\* path.is_file()
path_is_file(fs, path) ==
    path_exists(fs, path) /\ path.file # None /\ \A e \in EntriesAt(fs, path) : e.is_file

\* collect_files(directory): the .pdf and .txt files of a directory, sorted.
\* The directories inside the directory of the scenario hold nothing.
collect_files(fs, path) ==
    IF path.file = None THEN Sorted(Eligible(EntriesAt(fs, path))) ELSE <<>>

\* all_results[key] = value
Assign(all_results, key, value) == Merge(all_results, [k \in {key} |-> value])

\* The value of an expression is computed once and handed on as v.
Once(value, Rest(_)) == CHOOSE r \in {Rest(v) : v \in {value}} : TRUE

\* The calls of ingest_single_paper for the files of one path, from file j
\* on; st holds all_results and the calls made before.
RECURSIVE IngestFiles(_, _, _, _, _, _)
IngestFiles(files, j, dir, metadata, env, st) ==
    IF j > Len(files) THEN st
    ELSE LET file == files[j].file
             file_path == FilePath(dir, file.name)
         IN  Once(ingest_single_paper(file, file_path, None, metadata,
                                      IngestEnv(env, Len(st.calls) + 1)),
                  LAMBDA done :
                      Once([all_results |-> Assign(st.all_results, file_path,
                                                   done.outcome.value),
                            calls |-> Append(st.calls, IngestCall(file, file_path, done))],
                           LAMBDA next :
                               IngestFiles(files, j + 1, dir, metadata, env, next)))

\* The loop of main over args.paths, from path i on.
RECURSIVE MainLoop(_, _, _, _, _, _)
MainLoop(paths, i, fs, metadata, env, st) ==
    IF i > Len(paths) THEN st
    ELSE LET path == resolve_path(paths[i])
         IN  IF ~path_exists(fs, path)
             THEN MainLoop(paths, i + 1, fs, metadata, env, st)
             ELSE IF path_is_file(fs, path)
             THEN Once(IngestFiles(Sorted(EntriesAt(fs, path)), 1, path.dir, metadata,
                                   env, st),
                       LAMBDA next : MainLoop(paths, i + 1, fs, metadata, env, next))
             ELSE Once(IngestFiles(collect_files(fs, path), 1, path.dir, metadata,
                                   env, st),
                       LAMBDA next : MainLoop(paths, i + 1, fs, metadata, env, next))

\* sum(all_results.values())
Successful(all_results) == Cardinality({k \in DOMAIN all_results : all_results[k]})

\* main(): the exit status, the mapping all_results and the calls made.
main(paths, title, reset, fs, env) ==
    LET base_metadata == IF title # None THEN [title |-> title] ELSE None
    IN  Once(MainLoop(paths, 1, fs, base_metadata, env,
                      [all_results |-> <<>>, calls |-> <<>>]),
             LAMBDA st :
                 LET successful == Successful(st.all_results)
                     failed == Cardinality(DOMAIN st.all_results) - successful
                 IN  [outcome |-> Return(IF failed = 0 THEN 0 ELSE 1),
                      all_results |-> st.all_results, calls |-> st.calls,
                      reset |-> IF reset THEN <<delete_collection(env.resps[1]).value>>
                                ELSE <<>>])

(***************************************************************************)
(* The ingest command: inputs and scenario                                 *)
(***************************************************************************)
MaxPaths == 2

\* The paths a user supplies: the directory, two files that may be in it
\* and a file that is not.
RawPaths ==
    {RawPath("papers", None)}
        \cup {RawPath("papers", Some(name)) :
                  name \in {FileName("a", ".txt"), FileName("b", ".TXT"),
                            FileName("z", ".txt")}}

\* The command line: one path or more, --title, --reset.
CommandLines ==
    [paths : UNION {[1..n -> RawPaths] : n \in 1..MaxPaths},
     title : {None, Title}, reset : BOOLEAN]

\* One run of the command on the directory of the scenario, every request
\* of the run meeting the same condition of the store.
Main(args) ==
    /\ ingestLog = None
    /\ \E resp \in PutResponses : \E applied \in Applied(resp) :
           LET env == [pdfReader |-> services.pdfReader, embedder |-> services.embedder,
                       resps |-> [j \in 1..(MaxPaths * MaxFiles) |-> resp]]
           IN  \E done \in {main(args.paths, args.title, args.reset, disk, env)} :
                   /\ ingestLog' = [op |-> "main", args |-> args,
                                    outcome |-> done.outcome,
                                    all_results |-> done.all_results,
                                    calls |-> done.calls, reset |-> done.reset]
                   /\ points' = UpsertAll(points, done.calls, applied)
    /\ UNCHANGED <<disk, services, source, chunkLog, runs, retrievalVars,
                 sessionVars, embeddingVars>>

NextCli == \E args \in CommandLines : Main(args)

SpecCli == InitIngest /\ [][NextCli]_vars

(***************************************************************************)
(* The ingest command: properties                                          *)
(***************************************************************************)
\* The supplied paths under which there is nothing.
PathsNotFound ==
    {i \in 1..Len(ingestLog.args.paths) :
         ~path_exists(disk, resolve_path(ingestLog.args.paths[i]))}

\* The calls of ingest_single_paper of the run that returned False.
FailedCalls ==
    {j \in 1..Len(ingestLog.calls) : ingestLog.calls[j].done.outcome.value = FALSE}

\* C22: the ingest command returns exit status 0 only when every supplied
\* input was ingested successfully, and a nonzero status whenever an input
\* fails: a file whose ingestion reports failure or a supplied path that
\* does not exist.
C22_ExitStatusReportsFailures ==
    (ingestLog # None /\ ingestLog.op = "main") =>
        /\ ~ingestLog.outcome.raised
        /\ ingestLog.outcome.value = 0 <=> (PathsNotFound = {} /\ FailedCalls = {})

(***************************************************************************)
(* get_embedding_model (src/src/embeddings.py)                             *)
(*                                                                         *)
(* The function reads the module global, builds an EmbeddingModel when it  *)
(* finds None, assigns it to the global and returns the global. It takes   *)
(* no lock, and building the model (reading a snapshot from disk) leaves   *)
(* time for other threads to run: each of these steps is a step of the     *)
(* calling thread.                                                         *)
(***************************************************************************)
MaxThreads == 2

MaxCalls == 2

Threads == 1..MaxThreads

\* A test that finds the global unset whatever it holds.
is_unset_always(global) == TRUE

\* _embedding_model is None
is_unset(global) == global.value = None

\* A thread outside get_embedding_model. returned and calls keep what its
\* calls returned and how many it made; alone tells that none of its calls
\* ran while another thread was inside the function.
NewThread ==
    [pc |-> "idle", local |-> None, returned |-> {}, calls |-> 0, alone |-> TRUE]

InitSingleton ==
    /\ embedding_model = [value |-> None, built |-> 0]
    /\ threads = [t \in Threads |-> NewThread]
    /\ operands = <<>>
    /\ cosine = None
    /\ PipelineIdle
    /\ RetrievalIdle
    /\ SessionIdle

\* Thread t calls get_embedding_model.
Enter(t) ==
    /\ threads[t].pc = "idle"
    /\ threads[t].calls < MaxCalls
    /\ LET busy == {u \in Threads : threads[u].pc # "idle"}
       IN  threads' = [u \in Threads |->
                          IF u = t
                          THEN [threads[u] EXCEPT !.pc = "test", !.calls = @ + 1,
                                                  !.alone = @ /\ busy = {}]
                          ELSE IF u \in busy THEN [threads[u] EXCEPT !.alone = FALSE]
                          ELSE threads[u]]
    /\ UNCHANGED <<embedding_model, operands, cosine, retrievalVars, pipelineVars,
                   sessionVars>>

\* if _embedding_model is None:
TestGlobal(t) ==
    /\ threads[t].pc = "test"
    /\ threads' = [threads EXCEPT ![t].pc =
                      IF is_unset(embedding_model) THEN "build" ELSE "return"]
    /\ UNCHANGED <<embedding_model, operands, cosine, retrievalVars, pipelineVars,
                   sessionVars>>

\* EmbeddingModel() returns a new instance.
Build(t) ==
    /\ threads[t].pc = "build"
    /\ embedding_model' = [embedding_model EXCEPT !.built = @ + 1]
    /\ threads' = [threads EXCEPT ![t].pc = "assign",
                                  ![t].local = Some(embedding_model.built + 1)]
    /\ UNCHANGED <<operands, cosine, retrievalVars, pipelineVars, sessionVars>>

\* EmbeddingModel() raises RuntimeError (no snapshot, or the load failed):
\* the call raises and the global keeps its value.
BuildFails(t) ==
    /\ threads[t].pc = "build"
    /\ threads' = [threads EXCEPT ![t].pc = "idle"]
    /\ UNCHANGED <<embedding_model, operands, cosine, retrievalVars, pipelineVars,
                   sessionVars>>

\* _embedding_model = <the new instance>
AssignGlobal(t) ==
    /\ threads[t].pc = "assign"
    /\ embedding_model' = [embedding_model EXCEPT !.value = threads[t].local]
    /\ threads' = [threads EXCEPT ![t].pc = "return", ![t].local = None]
    /\ UNCHANGED <<operands, cosine, retrievalVars, pipelineVars, sessionVars>>

\* return _embedding_model
ReturnGlobal(t) ==
    /\ threads[t].pc = "return"
    /\ threads' = [threads EXCEPT ![t].pc = "idle",
                                  ![t].returned = @ \cup {embedding_model.value[1]}]
    /\ UNCHANGED <<embedding_model, operands, cosine, retrievalVars, pipelineVars,
                   sessionVars>>

NextSingleton ==
    \E t \in Threads :
        \/ Enter(t)
        \/ TestGlobal(t)
        \/ Build(t)
        \/ BuildFails(t)
        \/ AssignGlobal(t)
        \/ ReturnGlobal(t)

SpecSingleton == InitSingleton /\ [][NextSingleton]_vars

\* The instances that calls of get_embedding_model have returned.
Returned == UNION {threads[t].returned : t \in Threads}

\* No call has run while another thread was inside the function.
OneAtATime == \A t \in Threads : threads[t].alone

Precision == 9

RECURSIVE Pow2(_)
Pow2(k) == IF k = 0 THEN 1 ELSE 2 * Pow2(k - 1)

Abs(n) == IF n < 0 THEN -n ELSE n

Sign(n) == IF n < 0 THEN -1 ELSE 1

Zero == [m |-> 0, e |-> 0]

\* The number of bits to drop from a > 0 to leave at most Precision bits.
RECURSIVE ExtraBits(_)
ExtraBits(a) == IF a < Pow2(Precision) THEN 0 ELSE 1 + ExtraBits(a \div 2)

\* The number of bits a > 0 lacks to fill the significand.
RECURSIVE MissingBits(_)
MissingBits(a) == IF a >= Pow2(Precision - 1) THEN 0 ELSE 1 + MissingBits(2 * a)

\* The number of the format nearest to n * 2^e, ties to even.
Fl(n, e) ==
    IF n = 0 THEN Zero
    ELSE LET a == Abs(n)
             k == ExtraBits(a)
             q == a \div Pow2(k)
             r == a % Pow2(k)
             up == k > 0 /\ (2 * r > Pow2(k) \/ (2 * r = Pow2(k) /\ q % 2 = 1))
             rounded == IF up THEN q + 1 ELSE q
             j == MissingBits(rounded)
         IN  IF rounded = Pow2(Precision)
             THEN [m |-> Sign(n) * Pow2(Precision - 1), e |-> e + k + 1]
             ELSE [m |-> Sign(n) * rounded * Pow2(j), e |-> e + k - j]

\* x * y
FMul(x, y) == Fl(x.m * y.m, x.e + y.e)

\* x + y
FAdd(x, y) ==
    IF x.m = 0 THEN y
    ELSE IF y.m = 0 THEN x
    ELSE LET e == Min(x.e, y.e)
         IN  Fl(x.m * Pow2(x.e - e) + y.m * Pow2(y.e - e), e)

\* x / y for y # 0: the quotient to Precision + 2 bits, and one more bit
\* that tells whether anything is left, so that the rounding is that of the
\* exact quotient.
FDiv(x, y) ==
    IF x.m = 0 THEN Zero
    ELSE LET n == Abs(x.m) * Pow2(Precision + 2)
             q == n \div Abs(y.m)
             left == IF n % Abs(y.m) = 0 THEN 0 ELSE 1
         IN  Fl(Sign(x.m) * Sign(y.m) * (2 * q + left), x.e - y.e - Precision - 3)

\* The integer square root of n, found bit by bit from the bit given.
RECURSIVE Isqrt(_, _, _)
Isqrt(n, bit, r) ==
    IF bit = 0 THEN r
    ELSE IF (r + bit) * (r + bit) <= n THEN Isqrt(n, bit \div 2, r + bit)
    ELSE Isqrt(n, bit \div 2, r)

\* sqrt(x) for x >= 0, rounded as the exact root is.
FSqrt(x) ==
    IF x.m = 0 THEN Zero
    ELSE LET t == IF (x.e + Precision + 4) % 2 = 0 THEN Precision + 4 ELSE Precision + 5
             n == x.m * Pow2(t)
             r == Isqrt(n, Pow2(Precision + 3), 0)
             left == IF r * r = n THEN 0 ELSE 1
         IN  Fl(2 * r + left, ((x.e - t) \div 2) - 1)

\* x <= y
FLeq(x, y) ==
    LET e == Min(x.e, y.e)
    IN  x.m * Pow2(x.e - e) <= y.m * Pow2(y.e - e)

\* The float of an integer.
Float(i) == Fl(i, 0)

(***************************************************************************)
(* EmbeddingModel.compute_similarity                                       *)
(***************************************************************************)
MaxDim == 3

\* np.asarray(embedding): the components as floats.
asarray(embedding) == [i \in DOMAIN embedding |-> Float(embedding[i])]

\* np.dot(v1, v2) over the first n components.
RECURSIVE DotUpTo(_, _, _)
DotUpTo(v1, v2, n) ==
    IF n = 0 THEN Zero
    ELSE FAdd(DotUpTo(v1, v2, n - 1), FMul(v1[n], v2[n]))

dot(v1, v2) == DotUpTo(v1, v2, Len(v1))

\* np.linalg.norm(v): sqrt(dot(v, v)).
norm(v) == FSqrt(dot(v, v))

\* compute_similarity. "divided" tells whether the division was performed.
compute_similarity(embedding1, embedding2) ==
    LET v1 == asarray(embedding1)
        v2 == asarray(embedding2)
        denom == FMul(norm(v1), norm(v2))
    IN  IF denom # Zero
        THEN [value |-> FDiv(dot(v1, v2), denom), divided |-> TRUE]
        ELSE [value |-> Zero, divided |-> FALSE]

Components == {-1, 0, 1}

Embeddings == UNION {[1..n -> Components] : n \in 0..MaxDim}

InitSimilarity ==
    /\ operands \in {<<a, b>> \in Embeddings \X Embeddings : Len(a) = Len(b)}
    /\ cosine = None
    /\ embedding_model = None
    /\ threads = <<>>
    /\ PipelineIdle
    /\ RetrievalIdle
    /\ SessionIdle

ComputeSimilarity ==
    /\ cosine = None
    /\ cosine' = Some(compute_similarity(operands[1], operands[2]))
    /\ UNCHANGED <<embedding_model, threads, operands, retrievalVars, pipelineVars,
                   sessionVars>>

NextSimilarity == ComputeSimilarity

SpecSimilarity == InitSimilarity /\ [][NextSimilarity]_vars

ZeroNorm(embedding) == norm(asarray(embedding)) = Zero

\* C24: compute_similarity returns 0, without dividing, when one of the
\* vectors has zero norm; otherwise what it returns lies in [-1, 1], is the
\* same with the operands exchanged, and is 1 when the two vectors are equal.
C24_SimilarityInRange ==
    cosine # None =>
        LET a == operands[1]
            b == operands[2]
            r == cosine[1]
        IN  IF ZeroNorm(a) \/ ZeroNorm(b)
            THEN r.value = Zero /\ ~r.divided
            ELSE /\ FLeq(Float(-1), r.value)
                 /\ FLeq(r.value, Float(1))
                 /\ r.value = compute_similarity(b, a).value
                 /\ a = b => r.value = Float(1)

(***************************************************************************)
(* DocumentProcessor.split_into_paragraphs at the minimum length           *)
(***************************************************************************)
\* Paragraphs just below, at and just above the minimum length, written
\* with or without a space on either side.
BoundaryLengths == {MinParagraphLength - 1, MinParagraphLength, MinParagraphLength + 1}

BoundaryParagraphs == [length : BoundaryLengths, pad : 0..1]

\* The j-th paragraph as it is written, and stripped.
Written(paragraph, j) ==
    Cat(Times(" ", paragraph.pad),
        Cat(Run(Letters[j], paragraph.length), Times(" ", paragraph.pad)))

\* The paragraphs from the j-th on, with a blank line between two.
RECURSIVE BoundaryText(_, _)
BoundaryText(written, j) ==
    IF j > Len(written) THEN <<>>
    ELSE IF j = Len(written) THEN Written(written[j], j)
    ELSE Cat(Written(written[j], j), Cat(Run("\n", 2), BoundaryText(written, j + 1)))

InitParagraphs ==
    /\ \E m \in 0..MaxParagraphs : \E written \in [1..m -> BoundaryParagraphs] :
           source = [file |-> [TextFile(FileName("a", ".txt"), NoLayout)
                                   EXCEPT !.text = BoundaryText(written, 1)],
                     written |-> written, pdfReader |-> TRUE, chunk_size |-> None]
    /\ chunkLog = None
    /\ disk = <<>>
    /\ services = <<>>
    /\ ingestLog = None
    /\ runs = <<>>
    /\ points = <<>>
    /\ RetrievalIdle
    /\ SessionIdle
    /\ EmbeddingIdle

SplitIntoParagraphs ==
    /\ chunkLog = None
    /\ chunkLog' = [op |-> "split_into_paragraphs", paper_id |-> <<>>, metadata |-> None,
                    outcome |-> Return(split_into_paragraphs(source.file.text))]
    /\ UNCHANGED <<source, ingestVars, runVars, retrievalVars, sessionVars, embeddingVars>>

NextParagraphs == SplitIntoParagraphs

SpecParagraphs == InitParagraphs /\ [][NextParagraphs]_vars

\* The stripped paragraphs from the j-th on that have the minimum length or
\* more.
RECURSIVE OfMinimumLength(_, _)
OfMinimumLength(written, j) ==
    IF j > Len(written) THEN <<>>
    ELSE IF written[j].length >= MinParagraphLength
         THEN <<Run(Letters[j], written[j].length)>> \o OfMinimumLength(written, j + 1)
         ELSE OfMinimumLength(written, j + 1)

\* C29: split_into_paragraphs returns, stripped and in their order, the
\* paragraphs whose stripped length is 50 or more, and drops the shorter
\* ones and no other.
C29_KeepsMinimumLength ==
    chunkLog # None =>
        chunkLog.outcome.value = OfMinimumLength(source.written, 1)

(***************************************************************************)
(* DocumentProcessor.split_into_chunks(text, use_paragraphs=False)         *)
(***************************************************************************)
CHUNK_OVERLAP == 50

\* DocumentProcessor.__init__: chunk_overlap or settings.CHUNK_OVERLAP
DocumentProcessor_chunk_overlap(chunk_overlap) == PyOr(chunk_overlap, CHUNK_OVERLAP)

\* text[:k]
RECURSIVE Take(_, _)
Take(text, k) ==
    IF k <= 0 \/ text = <<>> THEN <<>>
    ELSE IF text[1].n >= k THEN Run(text[1].c, k)
    ELSE <<text[1]>> \o Take(Tail(text), k - text[1].n)

\* text[k:]
RECURSIVE Drop(_, _)
Drop(text, k) ==
    IF k <= 0 \/ text = <<>> THEN text
    ELSE IF text[1].n > k THEN Run(text[1].c, text[1].n - k) \o Tail(text)
    ELSE Drop(Tail(text), k - text[1].n)

\* Where a slice bound falls in a text of n characters: a negative bound
\* counts from the end, and bounds beyond the text are its ends.
SliceBound(i, n) == IF i < 0 THEN (IF i + n < 0 THEN 0 ELSE i + n) ELSE Min(i, n)

\* text[start:end]
Slice(text, start, end) ==
    LET lo == SliceBound(start, StrLen(text))
        hi == SliceBound(end, StrLen(text))
    IN  IF lo >= hi THEN <<>> ELSE Take(Drop(text, lo), hi - lo)

\* One iteration of the while loop, from the state (start, chunks).
window_step(st, text, chunk_size, chunk_overlap) ==
    LET end == st.start + chunk_size
        chunk == Slice(text, st.start, end)
    IN  [st EXCEPT !.chunks = IF chunk # <<>> THEN Append(@, chunk) ELSE @,
                   !.start = st.start + chunk_size - chunk_overlap,
                   !.iterations = @ + 1]

\* The iterations of one call the scenario follows.
MaxIterations == 10

WindowTexts ==
    {<<>>, Run("A", 120), Run("A", 300), Run("A", 300) \o Run("B", 150)}

WindowSizes == {None, Some(100), Some(50)}

WindowOverlaps == {None, Some(0), Some(100)}

InitWindows ==
    /\ source \in [text : WindowTexts, chunk_size : WindowSizes,
                   chunk_overlap : WindowOverlaps]
    /\ chunkLog = None
    /\ disk = <<>>
    /\ services = <<>>
    /\ ingestLog = None
    /\ runs = <<>>
    /\ points = <<>>
    /\ RetrievalIdle
    /\ SessionIdle
    /\ EmbeddingIdle

\* chunks = [], start = 0
EnterWindows ==
    /\ chunkLog = None
    /\ chunkLog' = [op |-> "split_into_chunks", pc |-> "loop", start |-> 0,
                    chunks |-> <<>>, iterations |-> 0]
    /\ UNCHANGED <<source, ingestVars, runVars, retrievalVars, sessionVars, embeddingVars>>

\* while start < len(text): one more window
NextWindow ==
    /\ chunkLog # None
    /\ chunkLog.pc = "loop"
    /\ chunkLog.start < StrLen(source.text)
    /\ chunkLog.iterations < MaxIterations
    /\ chunkLog' = window_step(chunkLog, source.text,
                               DocumentProcessor_chunk_size(source.chunk_size),
                               DocumentProcessor_chunk_overlap(source.chunk_overlap))
    /\ UNCHANGED <<source, ingestVars, runVars, retrievalVars, sessionVars, embeddingVars>>

\* The loop is left and chunks returned.
ReturnWindows ==
    /\ chunkLog # None
    /\ chunkLog.pc = "loop"
    /\ ~(chunkLog.start < StrLen(source.text))
    /\ chunkLog' = [chunkLog EXCEPT !.pc = "done"]
    /\ UNCHANGED <<source, ingestVars, runVars, retrievalVars, sessionVars, embeddingVars>>

NextWindows == EnterWindows \/ NextWindow \/ ReturnWindows

\* A call that has begun goes on: the loop runs until its test fails.
SpecWindows == InitWindows /\ [][NextWindows]_vars /\ WF_vars(NextWindows)

\* The loop has made one more iteration.
Iterated == chunkLog # None /\ chunkLog'.iterations = chunkLog.iterations + 1

\* C30: the character-window loop terminates whatever chunk_size and
\* chunk_overlap are configured. The loop ends when start reaches the length
\* of the text, so it terminates exactly when every iteration moves start
\* forward; and each window it has collected has at most chunk_size
\* characters.
C30_WindowsAdvance ==
    [][Iterated =>
           /\ chunkLog'.start > chunkLog.start
           /\ \A j \in 1..Len(chunkLog'.chunks) :
                  StrLen(chunkLog'.chunks[j])
                      <= DocumentProcessor_chunk_size(source.chunk_size)]_vars

====
